---- MODULE Spec2Model ----
(***************************************************************************)
(* Model of the photo_lens ingestion pipeline:                             *)
(*   worker/ingestion/metadata_ingest.py  (stream, upsert, orchestrator)   *)
(*   backend/app/models/photos.py, alembic/versions  (tables, constraints) *)
(*   backend/app/core/events.py           (event broadcaster)              *)
(*                                                                         *)
(* Every await on the database is a step of its own, so that concurrent    *)
(* item processors of one chunk and concurrent runs interleave as the      *)
(* asyncio tasks do.  A storage call may raise: the environment injects a  *)
(* failure (at most MaxFaults of them in a behaviour).                     *)
(***************************************************************************)
EXTENDS Integers, Sequences, FiniteSets, TLC

None == "None"

(* ------------------------------ bounds -------------------------------- *)
\* asyncio.Semaphore(10) and batch_size = 20 of ingest_takeout_metadata,
\* scaled down; the chunk keeps holding more items than the semaphore admits.
SemaphoreSlots == 2
batch_size == 3
\* storage failures the environment injects in one behaviour
MaxFaults == 1
\* versions of the content of the files under the root
MaxVersion == 2
\* queues created by subscribe()
MaxSubscribers == 2
\* events the broadcasts let pile up in a queue nobody reads
MaxPending == 3

Runs == {"r1", "r2"}
\* the calls are numbered in the order they are made
Before(o, r) == o = "r1" /\ r = "r2"
\* identifiers a caller passes as batch_id (None: generate one)
CallerBatchIds == {None, "b1"}
\* limit: Optional[int] as a set, {} for None
Limits == {{}, {1}}

(* ---------------------------- file system ----------------------------- *)
\* A member name is kept with the parts pathlib derives from it:
\* filename (the full in-archive path), name (Path(..).name) and suffix.
Member(filename, name, suffix, is_dir) ==
    [filename |-> filename, name |-> name, suffix |-> suffix, is_dir |-> is_dir]

ZipX1 ==
    [path |-> "a/x.zip", name |-> "x.zip", depth |-> 2, readable |-> TRUE,
     infolist |-> << Member("A/", "A", "", TRUE),
                     Member("A/IMG_1.jpg", "IMG_1.jpg", ".jpg", FALSE),
                     Member("A/IMG_1.jpg.json", "IMG_1.jpg.json", ".json", FALSE),
                     Member("A/IMG_2.JPG", "IMG_2.JPG", ".JPG", FALSE),
                     Member("A/note.txt", "note.txt", ".txt", FALSE) >>]
ZipX2 ==
    [path |-> "b/x.zip", name |-> "x.zip", depth |-> 2, readable |-> TRUE,
     infolist |-> << Member("A/IMG_1.jpg", "IMG_1.jpg", ".jpg", FALSE) >>]
ZipY ==
    [path |-> "c/y.zip", name |-> "y.zip", depth |-> 2, readable |-> TRUE,
     infolist |-> << Member("B/IMG_3.png", "IMG_3.png", ".png", FALSE) >>]
ZipBad ==
    [path |-> "d/z.zip", name |-> "z.zip", depth |-> 2, readable |-> FALSE,
     infolist |-> << >>]
\* a container two directories below the root
ZipDeep ==
    [path |-> "n/m/deep.zip", name |-> "deep.zip", depth |-> 3, readable |-> TRUE,
     infolist |-> << Member("C/IMG_4.webp", "IMG_4.webp", ".webp", FALSE),
                     Member("C/IMG_5.Jpeg", "IMG_5.Jpeg", ".Jpeg", FALSE),
                     Member("C/clip.mp4", "clip.mp4", ".mp4", FALSE) >>]
\* a container without members
ZipEmpty ==
    [path |-> "p/empty.zip", name |-> "empty.zip", depth |-> 2, readable |-> TRUE,
     infolist |-> << >>]
\* a container directly in the root
ZipTop ==
    [path |-> "top.zip", name |-> "top.zip", depth |-> 1, readable |-> TRUE,
     infolist |-> << Member("IMG_6.tif", "IMG_6.tif", ".tif", FALSE),
                     Member("IMG_6.tif.json", "IMG_6.tif.json", ".json", FALSE),
                     Member("D/", "D", "", TRUE),
                     Member("D/IMG_7.HEIC", "IMG_7.HEIC", ".HEIC", FALSE),
                     Member("D/IMG_7.jpg.txt", "IMG_7.jpg.txt", ".txt", FALSE) >>]

\* the roots a run is given: sorted(rglob("*.zip")), in path order
Roots == { << ZipX1, ZipX2, ZipY >>, << ZipX1, ZipX2, ZipY, ZipBad >> }
\* the roots of the overlapping runs: one full chunk, or one item
ConcurrentRoots == { << ZipX1, ZipX2 >>, << ZipX2 >> }
\* the directories the generator is iterated over on its own: every *.zip
\* file below the directory, in path order
StreamRoots ==
    { << ZipX1, ZipY, ZipDeep, ZipEmpty, ZipTop >>,
      << ZipX1, ZipBad, ZipTop >>,
      << ZipBad, ZipDeep, ZipTop >>,
      << ZipEmpty, ZipTop >>,
      << ZipDeep >>,
      << >> }
\* the limits it is given
StreamLimits == {{}, {0}, {1}, {2}, {3}}

IMAGE_EXTS == {".jpg", ".jpeg", ".png", ".heic", ".webp", ".tif", ".tiff"}

\* str.lower() on the suffixes that occur
lower(s) ==
    CASE s = ".JPG" -> ".jpg"
      [] s = ".PNG" -> ".png"
      [] s = ".Jpeg" -> ".jpeg"
      [] s = ".HEIC" -> ".heic"
      [] OTHER -> s

\* faulty variant: the extension is compared as it is spelled
_is_image_case_sensitive(m) == m.suffix \in IMAGE_EXTS

_is_image(m) == lower(m.suffix) \in IMAGE_EXTS

_mime_from_name(m) ==
    CASE lower(m.suffix) \in {".jpg", ".jpeg"} -> "image/jpeg"
      [] lower(m.suffix) = ".png" -> "image/png"
      [] lower(m.suffix) = ".heic" -> "image/heic"
      [] lower(m.suffix) = ".webp" -> "image/webp"
      [] lower(m.suffix) \in {".tif", ".tiff"} -> "image/tiff"
      [] OTHER -> None

_list_zip_entries(zip) == SelectSeq(zip.infolist, LAMBDA info : ~info.is_dir)

\* faulty variant: the discovery descends whatever the flag says
DiscoverAlways(zips, recursive) == zips

\* sorted(takeout_dir.rglob("*.zip") if recursive else takeout_dir.glob("*.zip"))
Discover(zips, recursive) == SelectSeq(zips, LAMBDA z : recursive \/ z.depth = 1)

VARIABLES
    root,                \* takeout_dir: the *.zip files below it, in path order
    content,             \* version of the files' bytes each run reads
    photos,              \* table photos: sequence of rows, id = position
    ingest_status,       \* table ingest_status: sequence of rows
    pc,                  \* position of each run of ingest_takeout_metadata
    args,                \* batch_id, limit, reprocess each run was called with,
                         \* and the recursive flag its stream is opened with
    actual_batch_id,
    cur,                 \* stream_zip_metadata generator: zi, ei, count, ended
    batch,               \* items of the chunk being collected / processed
    tasks,               \* process_with_semaphore tasks of the chunk
    semaphore,           \* value of the run's asyncio.Semaphore
    processed, skipped,  \* the run's local counters
    exc,                 \* the exception the run is handling / raised
    faults,              \* storage failures injected so far
    _event_subscribers,  \* events.py: set of registered queues
    queues,              \* content of every queue created by subscribe()
    handler,             \* websocket.py: position and queue of every connection's handler
    _takeout_override,          \* api/ingest.py: the three runtime overrides,
    _ingest_limit_override,     \* None (for the limit: {}) when unset
    _ingest_reprocess_override,
    settings,            \* core/config.py: settings.takeout_path
    response,            \* what the last request to /ingest was answered
    call                 \* a function of the worker applied on its own: arguments, result

vars == << root, content, photos, ingest_status, pc, args, actual_batch_id, cur, batch,
           tasks, semaphore, processed, skipped, exc, faults,
           _event_subscribers, queues, handler, _takeout_override, _ingest_limit_override,
           _ingest_reprocess_override, settings, response, call >>

\* the state of api/ingest.py
api_vars == << _takeout_override, _ingest_limit_override, _ingest_reprocess_override,
              settings, response >>

(* ------------------------- stream_zip_metadata ------------------------ *)
\* The item the generator yields for an image member; v is the version of
\* the bytes read (entry size, EXIF, sidecar and the timestamp resolved from
\* them all come from the file content).
MakeItem(zip, entry, v) ==
    [filename |-> entry.name,
     source_uri |-> << "zip://", zip.name, "::", entry.filename >>,
     file_size |-> v,
     mime_type |-> _mime_from_name(entry),
     exif |-> v,
     google_json |-> v,
     taken_at |-> v]

\* Where the generator stops next, resumed after entry ei of container zi:
\* at the next image member, at the end of the containers, or in the
\* exception of _list_zip_entries on an unreadable container.
RECURSIVE NextYield(_, _, _)
NextYield(zips, zi, ei) ==
    IF zi > Len(zips) THEN [kind |-> "end", zi |-> zi, ei |-> 0]
    ELSE IF ~zips[zi].readable THEN [kind |-> "raise", zi |-> zi, ei |-> 0]
    ELSE LET entries == _list_zip_entries(zips[zi]) IN
         IF ei >= Len(entries) THEN NextYield(zips, zi + 1, 0)
         ELSE IF _is_image(entries[ei + 1]) THEN [kind |-> "item", zi |-> zi, ei |-> ei + 1]
         ELSE NextYield(zips, zi, ei + 1)

\* faulty variant: the generator ends once the count has passed the limit
LimitPassed(limit, count) == \E l \in limit : count > l

\* count >= limit after the yield ends the generator
LimitReached(limit, count) == \E l \in limit : count >= l

\* The async-for loop up to the next chunk dispatch: items are appended to
\* batch until it holds batch_size items, the stream ends or it raises.
RECURSIVE Fill(_, _, _, _, _)
Fill(zips, c, limit, v, b) ==
    IF Len(b) >= batch_size THEN [batch |-> b, cur |-> c, end |-> "full"]
    ELSE IF c.ended THEN [batch |-> b, cur |-> c, end |-> "exhausted"]
    ELSE LET n == NextYield(zips, c.zi, c.ei) IN
         CASE n.kind = "raise" -> [batch |-> b, cur |-> c, end |-> "raised"]
           [] n.kind = "end" -> [batch |-> b, cur |-> c, end |-> "exhausted"]
           [] OTHER ->
               Fill(zips,
                    [zi |-> n.zi, ei |-> n.ei, count |-> c.count + 1,
                     ended |-> LimitReached(limit, c.count + 1)],
                    limit, v,
                    Append(b, MakeItem(zips[n.zi],
                                       _list_zip_entries(zips[n.zi])[n.ei], v)))

(* ------------------------------ storage ------------------------------- *)
\* ids of the rows of a table whose column has the value: .where(col == value)
Matching(tbl, col, value) == {i \in DOMAIN tbl : tbl[i][col] = value}

\* faulty variant: the photos table without its unique constraint
uq_photos_source_uri_dropped(tbl, uri) == TRUE

\* 002_add_source_uri: unique constraint uq_photos_source_uri
uq_photos_source_uri(tbl, uri) ==
    Matching(tbl, "source_uri", uri) = {}

\* IngestStatus.batch_id = Column(..., unique=True)
uq_ingest_status_batch_id(tbl, id) ==
    Matching(tbl, "batch_id", id) = {}

\* select(Photo).where(Photo.source_uri == item["source_uri"])
SelectBySourceUri(tbl, uri) == Matching(tbl, "source_uri", uri)

\* faulty variant: the batch is looked up by the wrong column
SelectBatchByStatus(tbl, id) == Matching(tbl, "status", id)

\* select(IngestStatus).where(IngestStatus.batch_id == batch_id)
SelectBatch(tbl, id) == Matching(tbl, "batch_id", id)

\* faulty variant: an existing row is overwritten whatever reprocess says
DecideIgnoringReprocess(found, reprocess) ==
    CASE Cardinality(found) > 1 -> "raise"
      [] Cardinality(found) = 1 -> "update"
      [] OTHER -> "insert"

\* what _process_single_photo does with the rows its select found:
\* scalar_one_or_none raises on several rows; `if existing: if reprocess:`
Decide(found, reprocess) ==
    CASE Cardinality(found) > 1 -> "raise"
      [] Cardinality(found) = 1 /\ reprocess -> "update"
      [] Cardinality(found) = 1 /\ ~reprocess -> "skip"
      [] OTHER -> "insert"

\* faulty variant: a skipped item, a failed item reported as processed
SkippedAsProcessed == << TRUE, FALSE >>
FailedAsProcessed == << TRUE, FALSE >>

\* the (was_processed, was_skipped) tuples _process_single_photo returns
ProcessedResult == << TRUE, FALSE >>
SkippedResult == << FALSE, TRUE >>
\* except Exception: return False, False
FailedResult == << FALSE, FALSE >>

\* photo_values of _process_single_photo
photo_values(item, batch_id) ==
    [google_id |-> None,
     filename |-> item.filename,
     file_size |-> item.file_size,
     mime_type |-> item.mime_type,
     taken_at |-> item.taken_at,
     raw_metadata |-> [exif |-> item.exif, google |-> item.google_json],
     batch_id |-> batch_id,
     source_uri |-> item.source_uri]

\* faulty variant: the update leaves the row with the batch that created it
UpdatePhotoKeepingBatch(tbl, id, values) ==
    [tbl EXCEPT ![id] = [values EXCEPT !.batch_id = tbl[id].batch_id]]

\* update(Photo).where(Photo.id == id).values(**values)
UpdatePhoto(tbl, id, values) == [tbl EXCEPT ![id] = values]

\* IngestStatus(batch_id=..., status="running", started_at=...)
NewBatch(id) ==
    [batch_id |-> id, status |-> "running", processed_files |-> 0,
     skipped_files |-> 0, completed_at |-> None, error_message |-> None]

\* update(IngestStatus).where(IngestStatus.batch_id == id).values(...)
UpdateBatch(tbl, id, values) ==
    [i \in DOMAIN tbl |->
        IF tbl[i].batch_id = id
            THEN [col \in DOMAIN tbl[i] |->
                    IF col \in DOMAIN values THEN values[col] ELSE tbl[i][col]]
            ELSE tbl[i]]

\* f"batch-{uuid4()}": a fresh identifier for every call
uuid4(r) == IF r = "r1" THEN "batch-uuid-1" ELSE "batch-uuid-2"

\* batch_id of _get_or_create_batch after `if not batch_id`
ResolvedId(r) == IF args[r].batch_id = None THEN uuid4(r) ELSE args[r].batch_id

(* ------------------------------- tasks -------------------------------- *)
\* One process_with_semaphore task: waiting for the semaphore, acquired
\* (select in flight), inserting / updating (write and commit in flight), done.
Task(st, existing, result) == [st |-> st, existing |-> existing, result |-> result]

InFlightStates == {"acquired", "inserting", "updating"}

\* faulty variant: the tasks are gathered without the semaphore
DispatchUnbounded(n, free) ==
    [i \in 1..n |-> [st |-> "acquired", existing |-> 0, result |-> << FALSE, FALSE >>]]

\* faulty variant: the last item of a chunk is left out of the gather
DispatchAllButLast(n, free) ==
    [i \in 1..(IF n > 0 THEN n - 1 ELSE 0) |->
        [st |-> IF i <= free THEN "acquired" ELSE "waiting", existing |-> 0,
         result |-> << FALSE, FALSE >>]]

\* asyncio.gather starts the tasks in order: each takes a free slot of the
\* semaphore or queues up behind the others
Dispatch(n, free) ==
    [i \in 1..n |-> Task(IF i <= free THEN "acquired" ELSE "waiting", 0, FailedResult)]

Acquired(n, free) == IF n <= free THEN n ELSE free

\* Semaphore.release(): the value goes up, and the longest waiting task,
\* if there is one, takes the slot at once
Waiting(ts) == {i \in DOMAIN ts : ts[i].st = "waiting"}

FirstWaiting(ts) == CHOOSE i \in Waiting(ts) : \A j \in Waiting(ts) : i <= j

Release(ts) ==
    IF Waiting(ts) = {} THEN ts
    ELSE [ts EXCEPT ![FirstWaiting(ts)].st = "acquired"]

ReleasedValue(ts, value) == IF Waiting(ts) = {} THEN value + 1 ELSE value

\* the task returns result: leaving `async with semaphore` releases the slot
Return(r, i, result) ==
    /\ tasks' = [tasks EXCEPT ![r] = Release([@ EXCEPT ![i] = Task("done", 0, result)])]
    /\ semaphore' = [semaphore EXCEPT ![r] = ReleasedValue(tasks[r], @)]

Count(ts, k) == Cardinality({i \in DOMAIN ts : ts[i].result[k]})

(* -------------------------------- Init -------------------------------- *)
NoCursor == [zi |-> 1, ei |-> 0, count |-> 0, ended |-> FALSE]

NoArgs ==
    [takeout_dir |-> None, batch_id |-> None, limit |-> {}, reprocess |-> FALSE,
     recursive |-> TRUE]

\* no connection yet: ingest_progress_websocket has not been entered
NoHandler == [pc |-> "idle", queue |-> 0]

\* no response on its way to a client
NoResponse == [status_code |-> 0]

\* the module state of api/ingest.py at import, no request answered yet
InitApi ==
    /\ handler = [h \in 1..MaxSubscribers |-> NoHandler]
    /\ _takeout_override = None
    /\ _ingest_limit_override = {}
    /\ _ingest_reprocess_override = {}
    /\ response = NoResponse

\* no function applied on its own
NoCall == [fn |-> None]

InitOver(roots) ==
    /\ InitApi
    /\ settings = [takeout_path |-> "/takeout"]
    /\ call = NoCall
    /\ root \in roots
    /\ content = [r \in Runs |-> 1]
    /\ photos = << >>
    /\ ingest_status = << >>
    /\ pc = [r \in Runs |-> "idle"]
    /\ args = [r \in Runs |-> NoArgs]
    /\ actual_batch_id = [r \in Runs |-> None]
    /\ cur = [r \in Runs |-> NoCursor]
    /\ batch = [r \in Runs |-> << >>]
    /\ tasks = [r \in Runs |-> << >>]
    /\ semaphore = [r \in Runs |-> SemaphoreSlots]
    /\ processed = [r \in Runs |-> 0]
    /\ skipped = [r \in Runs |-> 0]
    /\ exc = [r \in Runs |-> None]
    /\ faults = 0
    /\ _event_subscribers = {}
    /\ queues = << >>

Init == InitOver(Roots)

\* the environment makes a storage call raise
Inject == faults < MaxFaults /\ faults' = faults + 1

(* ---------------------- ingest_takeout_metadata ----------------------- *)
\* a caller (start_ingestion's task, run_worker.main) invokes the run
Call(r, takeout_dir, id, limit, reprocess, v) ==
    /\ pc[r] = "idle"
    /\ content' = [content EXCEPT ![r] = v]
    /\ pc' = [pc EXCEPT ![r] = "resolve"]
    /\ args' = [args EXCEPT ![r] = [takeout_dir |-> takeout_dir, batch_id |-> id,
                                    limit |-> limit, reprocess |-> reprocess,
                                    recursive |-> TRUE]]
    /\ UNCHANGED << root, photos, ingest_status, actual_batch_id, cur, batch, tasks,
                    semaphore, processed, skipped, exc, faults,
                    _event_subscribers, queues,
                    handler, call >>

Ended(r) == pc[r] \in {"returned", "raised"}

\* runs made one after another (run_worker, or a trigger after the last
\* batch has ended)
Start(r, id, limit, reprocess, v) ==
    /\ \A o \in Runs : Before(o, r) => Ended(o)
    /\ Call(r, settings.takeout_path, id, limit, reprocess, v)
    /\ UNCHANGED api_vars

\* runs that overlap: start_ingestion creates a task per request; the files
\* are not replaced while runs overlap
StartConcurrent(r, id, reprocess) ==
    /\ \A o \in Runs : Before(o, r) => pc[o] # "idle"
    /\ Call(r, settings.takeout_path, id, {}, reprocess, 1)
    /\ UNCHANGED api_vars

\* _get_or_create_batch: the select; an existing row is returned as it is.
\* An exception here is outside the try block and leaves the run at once.
GetBatch(r) ==
    /\ pc[r] = "resolve"
    /\ LET found == SelectBatch(ingest_status, ResolvedId(r)) IN
       \/ /\ Inject
          /\ pc' = [pc EXCEPT ![r] = "raised"]
          /\ exc' = [exc EXCEPT ![r] = "DBAPIError"]
          /\ UNCHANGED actual_batch_id
       \/ /\ Cardinality(found) > 1
          /\ pc' = [pc EXCEPT ![r] = "raised"]
          /\ exc' = [exc EXCEPT ![r] = "MultipleResultsFound"]
          /\ UNCHANGED << actual_batch_id, faults >>
       \/ /\ Cardinality(found) = 1
          /\ actual_batch_id' = [actual_batch_id EXCEPT ![r] = ResolvedId(r)]
          /\ pc' = [pc EXCEPT ![r] = "stream"]
          /\ UNCHANGED << exc, faults >>
       \/ /\ found = {}
          /\ pc' = [pc EXCEPT ![r] = "create"]
          /\ UNCHANGED << actual_batch_id, exc, faults >>
    /\ UNCHANGED << root, content, photos, ingest_status, args, cur, batch, tasks, semaphore,
                    processed, skipped, _event_subscribers, queues,
                    handler, api_vars, call >>

\* faulty variant: the stream is entered without the batch row committed
CreateBatchUncommitted(r) ==
    /\ pc[r] = "create"
    /\ actual_batch_id' = [actual_batch_id EXCEPT ![r] = ResolvedId(r)]
    /\ pc' = [pc EXCEPT ![r] = "stream"]
    /\ UNCHANGED << root, content, photos, ingest_status, args, cur, batch, tasks, semaphore,
                    processed, skipped, exc, faults, _event_subscribers, queues,
                    handler, api_vars, call >>

\* _get_or_create_batch: session.add, flush, and the commit of the caller
CreateBatch(r) ==
    /\ pc[r] = "create"
    /\ \/ /\ Inject
          /\ pc' = [pc EXCEPT ![r] = "raised"]
          /\ exc' = [exc EXCEPT ![r] = "DBAPIError"]
          /\ UNCHANGED << ingest_status, actual_batch_id >>
       \/ /\ ~uq_ingest_status_batch_id(ingest_status, ResolvedId(r))
          /\ pc' = [pc EXCEPT ![r] = "raised"]
          /\ exc' = [exc EXCEPT ![r] = "IntegrityError"]
          /\ UNCHANGED << ingest_status, actual_batch_id, faults >>
       \/ /\ uq_ingest_status_batch_id(ingest_status, ResolvedId(r))
          /\ ingest_status' = Append(ingest_status, NewBatch(ResolvedId(r)))
          /\ actual_batch_id' = [actual_batch_id EXCEPT ![r] = ResolvedId(r)]
          /\ pc' = [pc EXCEPT ![r] = "stream"]
          /\ UNCHANGED << exc, faults >>
    /\ UNCHANGED << root, content, photos, args, cur, batch, tasks, semaphore,
                    processed, skipped, _event_subscribers, queues,
                    handler, api_vars, call >>

\* the async-for loop: pull items until a chunk is full (gather it), the
\* stream ends (gather the remaining items, if any) or the stream raises
FillChunk(r) ==
    /\ pc[r] = "stream"
    /\ LET f == Fill(Discover(root, args[r].recursive), cur[r], args[r].limit,
                     content[r], << >>) IN
       /\ cur' = [cur EXCEPT ![r] = f.cur]
       /\ batch' = [batch EXCEPT ![r] = f.batch]
       /\ IF f.end = "raised"
          THEN /\ pc' = [pc EXCEPT ![r] = "except"]
               /\ exc' = [exc EXCEPT ![r] = "BadZipFile"]
               /\ UNCHANGED << tasks, semaphore >>
          ELSE /\ pc' = [pc EXCEPT ![r] =
                            IF f.end = "full" THEN "gather"
                            ELSE IF f.batch # << >> THEN "gather_last"
                            ELSE "finalize"]
               /\ tasks' = [tasks EXCEPT ![r] = Dispatch(Len(f.batch), semaphore[r])]
               /\ semaphore' = [semaphore EXCEPT ![r] = @ - Acquired(Len(f.batch), @)]
               /\ UNCHANGED exc
    /\ UNCHANGED << root, content, photos, ingest_status, args, actual_batch_id,
                    processed, skipped, faults, _event_subscribers, queues,
                    handler, api_vars, call >>

(* ----------------------- _process_single_photo ------------------------ *)
\* select(Photo).where(Photo.source_uri == item["source_uri"]) returns, and
\* the code runs on to its next await: an existing row without reprocess is
\* skipped, with reprocess its update is issued, no row issues the insert.
\* Any exception is caught and the item reported (False, False).
SelectPhoto(r, i) ==
    /\ pc[r] \in {"gather", "gather_last"}
    /\ i \in DOMAIN tasks[r]
    /\ tasks[r][i].st = "acquired"
    /\ LET found == SelectBySourceUri(photos, batch[r][i].source_uri)
           todo == Decide(found, args[r].reprocess) IN
       \/ /\ Inject
          /\ Return(r, i, FailedResult)
       \/ /\ todo = "raise"
          /\ Return(r, i, FailedResult)
          /\ UNCHANGED faults
       \/ /\ todo = "skip"
          /\ Return(r, i, SkippedResult)
          /\ UNCHANGED faults
       \/ /\ todo = "update"
          /\ tasks' = [tasks EXCEPT ![r][i] = Task("updating", CHOOSE id \in found : TRUE,
                                                   FailedResult)]
          /\ UNCHANGED << semaphore, faults >>
       \/ /\ todo = "insert"
          /\ tasks' = [tasks EXCEPT ![r][i] = Task("inserting", 0, FailedResult)]
          /\ UNCHANGED << semaphore, faults >>
    /\ UNCHANGED << root, content, photos, ingest_status, pc, args, actual_batch_id, cur, batch,
                    processed, skipped, exc, _event_subscribers, queues,
                    handler, api_vars, call >>

\* the write and its commit: update of the row found (reprocess), or insert
\* of a new row, which the unique constraint on source_uri may reject
WritePhoto(r, i) ==
    /\ pc[r] \in {"gather", "gather_last"}
    /\ i \in DOMAIN tasks[r]
    /\ tasks[r][i].st \in {"updating", "inserting"}
    /\ LET values == photo_values(batch[r][i], actual_batch_id[r]) IN
       \/ /\ Inject
          /\ Return(r, i, FailedResult)
          /\ UNCHANGED photos
       \/ /\ tasks[r][i].st = "updating"
          /\ photos' = UpdatePhoto(photos, tasks[r][i].existing, values)
          /\ Return(r, i, ProcessedResult)
          /\ UNCHANGED faults
       \/ /\ tasks[r][i].st = "inserting"
          /\ uq_photos_source_uri(photos, values.source_uri)
          /\ photos' = Append(photos, values)
          /\ Return(r, i, ProcessedResult)
          /\ UNCHANGED faults
       \/ /\ tasks[r][i].st = "inserting"
          /\ ~uq_photos_source_uri(photos, values.source_uri)
          /\ Return(r, i, FailedResult)
          /\ UNCHANGED << photos, faults >>
    /\ UNCHANGED << root, content, ingest_status, pc, args, actual_batch_id, cur, batch,
                    processed, skipped, exc, _event_subscribers, queues,
                    handler, api_vars, call >>

(* ------------------- ingest_takeout_metadata, go on ------------------- *)
\* faulty variant: the results are collected as soon as one task has returned
AnyDone(ts) == \E i \in DOMAIN ts : ts[i].st = "done"

\* await asyncio.gather(*tasks) returns when every task has returned
AllDone(ts) == \A i \in DOMAIN ts : ts[i].st = "done"

\* gather of a full chunk returned: count the results, then
\* _update_batch_progress writes the cumulative counters
ChunkDone(r) ==
    /\ pc[r] = "gather"
    /\ AllDone(tasks[r])
    /\ processed' = [processed EXCEPT ![r] = @ + Count(tasks[r], 1)]
    /\ skipped' = [skipped EXCEPT ![r] = @ + Count(tasks[r], 2)]
    /\ batch' = [batch EXCEPT ![r] = << >>]
    /\ tasks' = [tasks EXCEPT ![r] = << >>]
    /\ \/ /\ Inject
          /\ pc' = [pc EXCEPT ![r] = "except"]
          /\ exc' = [exc EXCEPT ![r] = "DBAPIError"]
          /\ UNCHANGED ingest_status
       \/ /\ ingest_status' =
                UpdateBatch(ingest_status, actual_batch_id[r],
                            [processed_files |-> processed'[r],
                             skipped_files |-> skipped'[r]])
          /\ pc' = [pc EXCEPT ![r] = "stream"]
          /\ UNCHANGED << exc, faults >>
    /\ UNCHANGED << root, content, photos, args, actual_batch_id, cur, semaphore,
                    _event_subscribers, queues,
                    handler, api_vars, call >>

\* faulty variant: the results of the remaining items are not counted
LastChunkDoneUncounted(r) ==
    /\ pc[r] = "gather_last"
    /\ AllDone(tasks[r])
    /\ tasks' = [tasks EXCEPT ![r] = << >>]
    /\ pc' = [pc EXCEPT ![r] = "finalize"]
    /\ UNCHANGED << root, content, photos, ingest_status, args, actual_batch_id, cur, batch,
                    semaphore, processed, skipped, exc, faults, _event_subscribers, queues,
                    handler, api_vars, call >>

\* gather of the remaining items returned: count the results
LastChunkDone(r) ==
    /\ pc[r] = "gather_last"
    /\ AllDone(tasks[r])
    /\ processed' = [processed EXCEPT ![r] = @ + Count(tasks[r], 1)]
    /\ skipped' = [skipped EXCEPT ![r] = @ + Count(tasks[r], 2)]
    /\ tasks' = [tasks EXCEPT ![r] = << >>]
    /\ pc' = [pc EXCEPT ![r] = "finalize"]
    /\ UNCHANGED << root, content, photos, ingest_status, args, actual_batch_id, cur, batch,
                    semaphore, exc, faults, _event_subscribers, queues,
                    handler, api_vars, call >>

\* "Mark batch as completed", then return
Complete(r) ==
    /\ pc[r] = "finalize"
    /\ \/ /\ Inject
          /\ pc' = [pc EXCEPT ![r] = "except"]
          /\ exc' = [exc EXCEPT ![r] = "DBAPIError"]
          /\ UNCHANGED ingest_status
       \/ /\ ingest_status' =
                UpdateBatch(ingest_status, actual_batch_id[r],
                            [processed_files |-> processed[r],
                             skipped_files |-> skipped[r],
                             status |-> "completed",
                             completed_at |-> "utcnow"])
          /\ pc' = [pc EXCEPT ![r] = "returned"]
          /\ UNCHANGED << exc, faults >>
    /\ UNCHANGED << root, content, photos, args, actual_batch_id, cur, batch, tasks, semaphore,
                    processed, skipped, _event_subscribers, queues,
                    handler, api_vars, call >>

\* except Exception: mark the batch error with str(exc), then re-raise
\* (a failure of this update raises out of the handler instead)
Fail(r) ==
    /\ pc[r] = "except"
    /\ pc' = [pc EXCEPT ![r] = "raised"]
    /\ \/ /\ Inject
          /\ exc' = [exc EXCEPT ![r] = "DBAPIError"]
          /\ UNCHANGED ingest_status
       \/ /\ ingest_status' =
                UpdateBatch(ingest_status, actual_batch_id[r],
                            [status |-> "error", error_message |-> exc[r]])
          /\ UNCHANGED << exc, faults >>
    /\ UNCHANGED << root, content, photos, args, actual_batch_id, cur, batch, tasks, semaphore,
                    processed, skipped, _event_subscribers, queues,
                    handler, api_vars, call >>

(* ------------------------------ events.py ----------------------------- *)
\* asyncio.Queue() is created with the default maxsize, 0: no limit
maxsize == 0

\* the events a caller broadcasts
Events == {"progress", "completed"}

\* Queue.full(): never with maxsize <= 0
full(q) == maxsize > 0 /\ Len(queues[q]) >= maxsize

\* subscribe(): a new asyncio.Queue() is registered
subscribe(q) ==
    /\ q = Len(queues) + 1
    /\ q <= MaxSubscribers
    /\ queues' = Append(queues, << >>)
    /\ _event_subscribers' = _event_subscribers \cup {q}
    /\ UNCHANGED << root, content, photos, ingest_status, pc, args, actual_batch_id, cur, batch,
                    tasks, semaphore, processed, skipped, exc, faults, api_vars, call >>

\* unsubscribe(queue)
unsubscribe(q) ==
    /\ q \in _event_subscribers
    /\ _event_subscribers' = _event_subscribers \ {q}
    /\ UNCHANGED << root, content, photos, ingest_status, pc, args, actual_batch_id, cur, batch,
                    tasks, semaphore, processed, skipped, exc, faults, queues,
                    api_vars, call >>

\* faulty variant: the event is put on every queue ever created
broadcast_event_to_all(event) ==
    /\ \A q \in DOMAIN queues : Len(queues[q]) < MaxPending
    /\ queues' = [q \in DOMAIN queues |-> Append(queues[q], event)]
    /\ UNCHANGED << root, content, photos, ingest_status, pc, args, actual_batch_id, cur, batch,
                    tasks, semaphore, processed, skipped, exc, faults, _event_subscribers,
                    handler, api_vars, call >>

\* broadcast_event(event): put_nowait on every registered queue; a queue
\* that raises QueueFull is collected in dead_queues and discarded
broadcast_event(event) ==
    /\ \A q \in _event_subscribers : Len(queues[q]) < MaxPending
    /\ LET dead_queues == {q \in _event_subscribers : full(q)} IN
       /\ queues' = [q \in DOMAIN queues |->
                       IF q \in _event_subscribers \ dead_queues
                       THEN Append(queues[q], event) ELSE queues[q]]
       /\ _event_subscribers' = _event_subscribers \ dead_queues
    /\ UNCHANGED << root, content, photos, ingest_status, pc, args, actual_batch_id, cur, batch,
                    tasks, semaphore, processed, skipped, exc, faults,
                    handler, api_vars, call >>

\* faulty variant: the newest event of the queue is handed out
get_newest(q) ==
    /\ q \in _event_subscribers
    /\ queues[q] # << >>
    /\ queues' = [queues EXCEPT ![q] = SubSeq(@, 1, Len(@) - 1)]
    /\ UNCHANGED << root, content, photos, ingest_status, pc, args, actual_batch_id, cur, batch,
                    tasks, semaphore, processed, skipped, exc, faults, _event_subscribers,
                    api_vars, call >>

\* ingest_progress_websocket: queue.get() hands the oldest event of the
\* handler's queue to the client
get(q) ==
    /\ q \in _event_subscribers
    /\ queues[q] # << >>
    /\ queues' = [queues EXCEPT ![q] = Tail(@)]
    /\ UNCHANGED << root, content, photos, ingest_status, pc, args, actual_batch_id, cur, batch,
                    tasks, semaphore, processed, skipped, exc, faults, _event_subscribers,
                    api_vars, call >>

(* ----------------------------- api/ingest.py -------------------------- *)
\* the directories of the host; any other path does not exist or is a file
Directories == {"/takeout", "/other", "."}

\* str(Path(p).expanduser()): a trailing slash is dropped, the empty path is "."
Path(p) ==
    CASE p = "" -> "."
      [] p = "/takeout/" -> "/takeout"
      [] OTHER -> p

\* the paths a request or the environment names (None: not given)
TakeoutPaths == {None, "", "/other", "/takeout/", "/missing", "/file.txt"}

\* Optional[bool] as a set, {} for None
OptionalBools == {{}, {TRUE}, {FALSE}}

\* the limits a request or a payload gives
ApiLimits == {{}, {1}, {2}}

\* a or b of two Optional[str]: None and the empty text are falsy
or(a, b) == IF a \notin {None, ""} THEN a ELSE b

\* _resolve_takeout_path: the directory, or the HTTPException raised
_resolve_takeout_path(takeout_path) ==
    LET candidate == or(takeout_path, or(_takeout_override, settings.takeout_path)) IN
    IF candidate \in {None, ""}
    THEN [status_code |-> 400, detail |-> "TAKEOUT_PATH is not configured"]
    ELSE IF Path(candidate) \notin Directories
    THEN [status_code |-> 400, detail |-> "Takeout path invalid", path |-> Path(candidate)]
    ELSE [status_code |-> 0, takeout_dir |-> Path(candidate)]

\* the exchange on its way to the client: the query parameters of the
\* request and the response (or the HTTPException) that answers it
Answer(endpoint, limit, reprocess, takeout_path, body) ==
    [status_code |-> body.status_code,
     endpoint |-> endpoint,
     request |-> [limit |-> limit, reprocess |-> reprocess, takeout_path |-> takeout_path],
     body |-> body]

\* faulty variant: the task is created before the path is looked at
start_ingestion_unchecked(limit, reprocess, takeout_path) ==
    /\ response = NoResponse
    /\ \E r \in Runs :
          /\ \A o \in Runs : Before(o, r) => pc[o] # "idle"
          /\ Call(r, Path(or(takeout_path, "")), uuid4(r), limit, TRUE \in reprocess, 1)
          /\ response' = IF _resolve_takeout_path(takeout_path).status_code = 400
                         THEN Answer("POST /ingest/start", limit, reprocess, takeout_path,
                                     _resolve_takeout_path(takeout_path))
                         ELSE Answer("POST /ingest/start", limit, reprocess, takeout_path,
                                     [status_code |-> 202, batch_id |-> uuid4(r),
                                      status |-> "started"])
    /\ UNCHANGED << _takeout_override, _ingest_limit_override, _ingest_reprocess_override,
                    settings >>

\* faulty variant: the stored override is preferred to the request's limit
resolved_limit_override_first(limit) ==
    IF _ingest_limit_override # {} THEN _ingest_limit_override ELSE limit

\* limit if limit is not None else _ingest_limit_override
resolved_limit(limit) == IF limit # {} THEN limit ELSE _ingest_limit_override

resolved_reprocess(reprocess) ==
    IF reprocess # {} THEN reprocess
    ELSE IF _ingest_reprocess_override # {} THEN _ingest_reprocess_override
    ELSE {FALSE}

\* POST /ingest/start: the parameters are resolved, the path is checked, the
\* run is created as a task and the response returns at once
start_ingestion(limit, reprocess, takeout_path) ==
    LET takeout_dir == _resolve_takeout_path(takeout_path)
    IN  /\ response = NoResponse
        /\ IF takeout_dir.status_code = 400
           THEN /\ response' = Answer("POST /ingest/start", limit, reprocess, takeout_path, takeout_dir)
                /\ UNCHANGED << root, content, photos, ingest_status, pc, args,
                                actual_batch_id, cur, batch, tasks, semaphore, processed,
                                skipped, exc, faults, _event_subscribers, queues, handler,
                                call >>
           ELSE \E r \in Runs :
                   /\ \A o \in Runs : Before(o, r) => pc[o] # "idle"
                   /\ Call(r, takeout_dir.takeout_dir, uuid4(r), resolved_limit(limit),
                           TRUE \in resolved_reprocess(reprocess), 1)
                   /\ response' = Answer("POST /ingest/start", limit, reprocess, takeout_path,
                                          [status_code |-> 202, batch_id |-> uuid4(r),
                                           status |-> "started"])
        /\ UNCHANGED << _takeout_override, _ingest_limit_override,
                        _ingest_reprocess_override, settings >>

\* the frame of a request that touches the overrides only
ConfigOnly ==
    UNCHANGED << root, content, photos, ingest_status, pc, args, actual_batch_id, cur, batch,
                 tasks, semaphore, processed, skipped, exc, faults, _event_subscribers,
                 queues, handler, call, settings >>

\* faulty variant: limit and reprocess are stored before the path is validated
update_ingest_config_path_last(takeout_path, limit, reprocess) ==
    /\ response = NoResponse
    /\ _ingest_limit_override' = IF limit # {} THEN limit ELSE _ingest_limit_override
    /\ _ingest_reprocess_override' =
          IF reprocess # {} THEN reprocess ELSE _ingest_reprocess_override
    /\ IF takeout_path # None /\ Path(takeout_path) \notin Directories
       THEN /\ response' = Answer("PUT /ingest/config", limit, reprocess, takeout_path,
                                   [status_code |-> 400, detail |-> "Takeout path invalid",
                                    path |-> Path(takeout_path)])
            /\ UNCHANGED _takeout_override
       ELSE /\ _takeout_override' =
                  IF takeout_path # None THEN Path(takeout_path) ELSE _takeout_override
            /\ response' = Answer("PUT /ingest/config", limit, reprocess, takeout_path,
                                   [status_code |-> 200])
    /\ ConfigOnly

\* PUT /ingest/config: every field the payload gives replaces its override
update_ingest_config(takeout_path, limit, reprocess) ==
    /\ response = NoResponse
    /\ IF takeout_path # None /\ Path(takeout_path) \notin Directories
       THEN /\ response' = Answer("PUT /ingest/config", limit, reprocess, takeout_path,
                                   [status_code |-> 400, detail |-> "Takeout path invalid",
                                    path |-> Path(takeout_path)])
            /\ UNCHANGED << _takeout_override, _ingest_limit_override,
                            _ingest_reprocess_override >>
       ELSE /\ _takeout_override' =
                  IF takeout_path # None THEN Path(takeout_path) ELSE _takeout_override
            /\ _ingest_limit_override' = IF limit # {} THEN limit ELSE _ingest_limit_override
            /\ _ingest_reprocess_override' =
                  IF reprocess # {} THEN reprocess ELSE _ingest_reprocess_override
            /\ response' = Answer("PUT /ingest/config", limit, reprocess, takeout_path,
                                   [status_code |-> 200])
    /\ ConfigOnly

\* DELETE /ingest/config
clear_ingest_config_override ==
    /\ response = NoResponse
    /\ _takeout_override' = None
    /\ _ingest_limit_override' = {}
    /\ _ingest_reprocess_override' = {}
    /\ response' = [status_code |-> 204]
    /\ ConfigOnly

\* the response reaches the client
deliver ==
    /\ response # NoResponse
    /\ response' = NoResponse
    /\ UNCHANGED << _takeout_override, _ingest_limit_override, _ingest_reprocess_override >>
    /\ ConfigOnly

(* ----------------------------- websocket.py --------------------------- *)
\* ingest_progress_websocket, one handler per connection h.  Its awaits
\* are the steps: accept, send_json of the "connected" message, the wait
\* on queue.get() with its timeout, send_json of an event or a heartbeat.
\* An exception at an await inside the try block (WebSocketDisconnect, a
\* failed send, a cancellation) leads to the finally block.
InsideTry == {"send_connected", "wait", "send_event", "send_heartbeat"}

\* the frame of a step that only moves the handler
HandlerOnly ==
    UNCHANGED << root, content, photos, ingest_status, pc, args, actual_batch_id, cur, batch,
                 tasks, semaphore, processed, skipped, exc, faults, _event_subscribers,
                 queues, api_vars, call >>

\* await websocket.accept(): it returns, or raises before anything is subscribed
ws_accept(h) ==
    /\ handler[h].pc = "idle"
    /\ \E to \in {"accepted", "ended"} : handler' = [handler EXCEPT ![h].pc = to]
    /\ HandlerOnly

\* queue = await subscribe()
ws_subscribe(h) ==
    /\ handler[h].pc = "accepted"
    /\ \E q \in 1..MaxSubscribers :
          /\ subscribe(q)
          /\ handler' = [handler EXCEPT ![h] = [pc |-> "send_connected", queue |-> q]]

\* a send_json returns: the handler waits on its queue (again)
ws_send(h) ==
    /\ handler[h].pc \in {"send_connected", "send_event", "send_heartbeat"}
    /\ handler' = [handler EXCEPT ![h].pc = "wait"]
    /\ HandlerOnly

\* event = await asyncio.wait_for(queue.get(), timeout=30.0)
ws_get(h) ==
    /\ handler[h].pc = "wait"
    /\ get(handler[h].queue)
    /\ handler' = [handler EXCEPT ![h].pc = "send_event"]

\* asyncio.TimeoutError on an empty queue: a heartbeat is sent
ws_timeout(h) ==
    /\ handler[h].pc = "wait"
    /\ queues[handler[h].queue] = << >>
    /\ handler' = [handler EXCEPT ![h].pc = "send_heartbeat"]
    /\ HandlerOnly

\* faulty variant: an exception leaves the handler without the finally block
ws_raise_past_finally(h) ==
    /\ handler[h].pc \in InsideTry
    /\ handler' = [handler EXCEPT ![h].pc = "ended"]
    /\ HandlerOnly

\* an exception at an await inside the try block: caught (or, a
\* cancellation, passed on), the finally block runs next
ws_raise(h) ==
    /\ handler[h].pc \in InsideTry
    /\ handler' = [handler EXCEPT ![h].pc = "finally"]
    /\ HandlerOnly

\* finally: unsubscribe(queue), then websocket.close() whose failure is ignored
ws_finally(h) ==
    /\ handler[h].pc = "finally"
    /\ unsubscribe(handler[h].queue)
    /\ handler' = [handler EXCEPT ![h].pc = "ended"]

(* ------------------- stream_zip_metadata, item by item ---------------- *)
\* One __anext__ of the generator, the items it has yielded kept in batch:
\* resumed after a yield that reached the limit it returns; otherwise it
\* runs on to the next image member and yields it, to the end of the
\* containers and returns, or into the exception of an unreadable container.
anext(r) ==
    /\ pc[r] = "iterate"
    /\ LET zips == Discover(root, args[r].recursive)
           n == NextYield(zips, cur[r].zi, cur[r].ei) IN
       IF cur[r].ended
       THEN /\ pc' = [pc EXCEPT ![r] = "exhausted"]
            /\ UNCHANGED << cur, batch, exc >>
       ELSE CASE n.kind = "raise" ->
                   /\ pc' = [pc EXCEPT ![r] = "raised"]
                   /\ exc' = [exc EXCEPT ![r] = "BadZipFile"]
                   /\ cur' = [cur EXCEPT ![r].zi = n.zi, ![r].ei = n.ei]
                   /\ UNCHANGED batch
              [] n.kind = "end" ->
                   /\ pc' = [pc EXCEPT ![r] = "exhausted"]
                   /\ cur' = [cur EXCEPT ![r].zi = n.zi, ![r].ei = n.ei]
                   /\ UNCHANGED << batch, exc >>
              [] OTHER ->
                   /\ cur' = [cur EXCEPT ![r] =
                                 [zi |-> n.zi, ei |-> n.ei, count |-> cur[r].count + 1,
                                  ended |-> LimitReached(args[r].limit, cur[r].count + 1)]]
                   /\ batch' = [batch EXCEPT ![r] =
                                   Append(@, MakeItem(zips[n.zi],
                                                      _list_zip_entries(zips[n.zi])[n.ei],
                                                      content[r]))]
                   /\ UNCHANGED << pc, exc >>
    /\ UNCHANGED << root, content, photos, ingest_status, args, actual_batch_id, tasks,
                    semaphore, processed, skipped, faults, _event_subscribers, queues,
                    handler, api_vars, call >>

(* -------------------------------- Next -------------------------------- *)
\* the steps of a run once it is called
Step ==
    \/ \E r \in Runs : GetBatch(r)
    \/ \E r \in Runs : CreateBatch(r)
    \/ \E r \in Runs : FillChunk(r)
    \/ \E r \in Runs, i \in 1..batch_size : SelectPhoto(r, i)
    \/ \E r \in Runs, i \in 1..batch_size : WritePhoto(r, i)
    \/ \E r \in Runs : ChunkDone(r)
    \/ \E r \in Runs : LastChunkDone(r)
    \/ \E r \in Runs : Complete(r)
    \/ \E r \in Runs : Fail(r)

\* runs one after another
Next ==
    \/ \E r \in Runs, id \in CallerBatchIds, limit \in Limits, reprocess \in BOOLEAN,
          v \in 1..MaxVersion :
          Start(r, id, limit, reprocess, v)
    \/ Step

Spec == Init /\ [][Next]_vars

\* overlapping runs over a root whose images fill one chunk
InitConcurrent == InitOver(ConcurrentRoots)

NextConcurrent ==
    \/ \E r \in Runs, id \in CallerBatchIds, reprocess \in BOOLEAN :
          StartConcurrent(r, id, reprocess)
    \/ Step

SpecConcurrent == InitConcurrent /\ [][NextConcurrent]_vars

\* runs one after another, with subscribers coming and going
NextProgress ==
    \/ Next
    \/ \E q \in 1..MaxSubscribers : subscribe(q) /\ UNCHANGED handler
    \/ \E q \in 1..MaxSubscribers : unsubscribe(q) /\ UNCHANGED handler

SpecProgress == Init /\ [][NextProgress]_vars

\* the broadcaster on its own: handlers subscribe, read and unsubscribe
\* while events are broadcast
NextEvents ==
    \/ \E q \in 1..MaxSubscribers : subscribe(q) /\ UNCHANGED handler
    \/ \E q \in 1..MaxSubscribers : unsubscribe(q) /\ UNCHANGED handler
    \/ \E event \in Events : broadcast_event(event)
    \/ \E q \in 1..MaxSubscribers : get(q) /\ UNCHANGED handler

SpecEvents == Init /\ [][NextEvents]_vars

\* the websocket handlers of the connections, while events are broadcast
NextWebSocket ==
    \/ \E h \in 1..MaxSubscribers : ws_accept(h)
    \/ \E h \in 1..MaxSubscribers : ws_subscribe(h)
    \/ \E h \in 1..MaxSubscribers : ws_send(h)
    \/ \E h \in 1..MaxSubscribers : ws_get(h)
    \/ \E h \in 1..MaxSubscribers : ws_timeout(h)
    \/ \E h \in 1..MaxSubscribers : ws_raise(h)
    \/ \E h \in 1..MaxSubscribers : ws_finally(h)
    \/ \E event \in Events : broadcast_event(event)

SpecWebSocket == Init /\ [][NextWebSocket]_vars

\* the directories the triggered runs read: one image, or an unreadable file
ApiRoots == { << ZipX2 >>, << ZipBad >> }

\* the service started with TAKEOUT_PATH set, unset or naming no directory
InitApiService ==
    /\ InitApi
    /\ settings \in { [takeout_path |-> p] : p \in {None, "/takeout", "/missing"} }
    /\ call = NoCall
    /\ root \in ApiRoots
    /\ content = [r \in Runs |-> 1]
    /\ photos = << >>
    /\ ingest_status = << >>
    /\ pc = [r \in Runs |-> "idle"]
    /\ args = [r \in Runs |-> NoArgs]
    /\ actual_batch_id = [r \in Runs |-> None]
    /\ cur = [r \in Runs |-> NoCursor]
    /\ batch = [r \in Runs |-> << >>]
    /\ tasks = [r \in Runs |-> << >>]
    /\ semaphore = [r \in Runs |-> SemaphoreSlots]
    /\ processed = [r \in Runs |-> 0]
    /\ skipped = [r \in Runs |-> 0]
    /\ exc = [r \in Runs |-> None]
    /\ faults = 0
    /\ _event_subscribers = {}
    /\ queues = << >>

\* the requests of the ingest API; the runs they create make no step yet
NextConfig ==
    \/ \E limit \in ApiLimits, reprocess \in OptionalBools, takeout_path \in TakeoutPaths :
          start_ingestion(limit, reprocess, takeout_path)
    \/ \E limit \in ApiLimits, reprocess \in OptionalBools, takeout_path \in TakeoutPaths :
          update_ingest_config(takeout_path, limit, reprocess)
    \/ clear_ingest_config_override
    \/ deliver

SpecConfig == InitApiService /\ [][NextConfig]_vars

\* triggers with the overrides as they are at import, while the runs they
\* created make their steps
NextTrigger ==
    \/ \E limit \in Limits, reprocess \in OptionalBools, takeout_path \in TakeoutPaths :
          start_ingestion(limit, reprocess, takeout_path)
    \/ deliver
    \/ Step /\ UNCHANGED response

SpecTrigger == InitApiService /\ [][NextTrigger]_vars


\* the generator iterated to its end, [item async for item in
\* stream_zip_metadata(takeout_dir, limit, recursive)], for every directory,
\* limit and recursive flag
InitStream ==
    /\ InitApi
    /\ settings = [takeout_path |-> "/takeout"]
    /\ call = NoCall
    /\ root \in StreamRoots
    /\ content = [r \in Runs |-> 1]
    /\ photos = << >>
    /\ ingest_status = << >>
    /\ pc = [r \in Runs |-> IF r = "r1" THEN "iterate" ELSE "idle"]
    /\ \E limit \in StreamLimits, recursive \in BOOLEAN :
          args = [r \in Runs |->
                    IF r = "r1" THEN [NoArgs EXCEPT !.limit = limit, !.recursive = recursive]
                    ELSE NoArgs]
    /\ actual_batch_id = [r \in Runs |-> None]
    /\ cur = [r \in Runs |-> NoCursor]
    /\ batch = [r \in Runs |-> << >>]
    /\ tasks = [r \in Runs |-> << >>]
    /\ semaphore = [r \in Runs |-> SemaphoreSlots]
    /\ processed = [r \in Runs |-> 0]
    /\ skipped = [r \in Runs |-> 0]
    /\ exc = [r \in Runs |-> None]
    /\ faults = 0
    /\ _event_subscribers = {}
    /\ queues = << >>

NextStream == \E r \in Runs : anext(r)

SpecStream == InitStream /\ [][NextStream]_vars

(* ------------------------ values of the metadata ---------------------- *)
\* Python values, each with its type.  A str is the sequence of its pieces
\* (characters, or runs of characters that are never split); an int is its
\* sign and decimal digits, without leading zeros; a dict is the sequence of
\* its << key, value >> items in insertion order.
PyNone == [t |-> "NoneType"]
PyBool(b) == [t |-> "bool", bool |-> b]
PyInt(sign, digits) == [t |-> "int", sign |-> sign, digits |-> digits]
PyFloat(sign, digits, fraction) ==
    [t |-> "float", sign |-> sign, digits |-> digits, fraction |-> fraction]
PyStr(s) == [t |-> "str", str |-> s]
PyBytes(b) == [t |-> "bytes", bytes |-> b]
PyList(items) == [t |-> "list", list |-> items]
PyTuple(items) == [t |-> "tuple", tuple |-> items]
PyDict(items) == [t |-> "dict", dict |-> items]
\* a value of a class of its own (PIL's IFDRational), with the text str() gives
PyObject(text) == [t |-> "object", text |-> text]
\* an exception leaves the expression
Raised == [t |-> "raise"]

\* bool(x) of the values a sidecar holds
truthy(x) ==
    CASE x.t = "NoneType" -> FALSE
      [] x.t = "bool" -> x.bool
      [] x.t = "int" -> x.digits # << 0 >>
      [] x.t = "float" -> x.digits # << 0 >> \/ x.fraction # << >>
      [] x.t = "str" -> x.str # << >>
      [] x.t = "bytes" -> x.bytes # << >>
      [] x.t = "list" -> x.list # << >>
      [] x.t = "tuple" -> x.tuple # << >>
      [] x.t = "dict" -> x.dict # << >>
      [] OTHER -> TRUE

\* d.get(key, default); a value that is no dict has no get (AttributeError)
dict_get(d, key, default) ==
    IF d.t # "dict" THEN Raised
    ELSE LET at == {i \in DOMAIN d.dict : d.dict[i][1] = key} IN
         IF at = {} THEN default ELSE d.dict[CHOOSE i \in at : TRUE][2]

DigitOf ==
    ("0" :> 0) @@ ("1" :> 1) @@ ("2" :> 2) @@ ("3" :> 3) @@ ("4" :> 4) @@
    ("5" :> 5) @@ ("6" :> 6) @@ ("7" :> 7) @@ ("8" :> 8) @@ ("9" :> 9)

RECURSIVE strip(_)
\* s.strip() of blanks
strip(s) ==
    IF s = << >> THEN s
    ELSE IF Head(s) = " " THEN strip(Tail(s))
    ELSE IF s[Len(s)] = " " THEN strip(SubSeq(s, 1, Len(s) - 1))
    ELSE s

RECURSIVE without_leading_zeros(_)
without_leading_zeros(digits) ==
    IF Len(digits) > 1 /\ Head(digits) = 0 THEN without_leading_zeros(Tail(digits))
    ELSE digits

\* int(x): an int as it is, a bool as 0 or 1, a float truncated, a str
\* parsed (blanks around, one sign, decimal digits); anything else raises
int(x) ==
    CASE x.t = "int" -> x
      [] x.t = "bool" -> PyInt(1, << IF x.bool THEN 1 ELSE 0 >>)
      [] x.t = "float" -> PyInt(IF x.digits = << 0 >> THEN 1 ELSE x.sign, x.digits)
      [] x.t = "str" ->
           LET s == strip(x.str)
               signed == s # << >> /\ Head(s) \in {"-", "+"}
               body == IF signed THEN Tail(s) ELSE s
               digits == without_leading_zeros([i \in DOMAIN body |-> DigitOf[body[i]]])
           IN  IF body = << >> \/ \E i \in DOMAIN body : body[i] \notin DOMAIN DigitOf
               THEN Raised
               ELSE PyInt(IF signed /\ Head(s) = "-" /\ digits # << 0 >> THEN -1 ELSE 1, digits)
      [] OTHER -> Raised

RECURSIVE digits_le(_, _)
\* a <= b of two digit sequences of one length
digits_le(a, b) ==
    \/ a = << >>
    \/ Head(a) < Head(b)
    \/ Head(a) = Head(b) /\ digits_le(Tail(a), Tail(b))

magnitude_le(a, b) == Len(a) < Len(b) \/ (Len(a) = Len(b) /\ digits_le(a, b))

\* the epoch seconds of 0001-01-01T00:00:00Z (negated) and of 9999-12-31T23:59:59Z
MinTimestamp == << 6, 2, 1, 3, 5, 5, 9, 6, 8, 0, 0 >>
MaxTimestamp == << 2, 5, 3, 4, 0, 2, 3, 0, 0, 7, 9, 9 >>

\* datetime.fromtimestamp(n, tz=timezone.utc): the aware datetime of that
\* instant; outside the years 1..9999 it raises
fromtimestamp(n) ==
    IF magnitude_le(n.digits, IF n.sign = 1 THEN MaxTimestamp ELSE MinTimestamp)
    THEN [t |-> "datetime", timestamp |-> n, tzinfo |-> "UTC"]
    ELSE Raised

\* the numbers strptime's directives accept, by their text
NumberOf ==
    ("0000" :> 0) @@ ("2020" :> 2020) @@ ("2021" :> 2021) @@
    ("00" :> 0) @@ ("01" :> 1) @@ ("02" :> 2) @@ ("03" :> 3) @@ ("04" :> 4) @@
    ("05" :> 5) @@ ("12" :> 12) @@ ("13" :> 13) @@ ("23" :> 23) @@ ("24" :> 24) @@
    ("29" :> 29) @@ ("30" :> 30) @@ ("59" :> 59) @@ ("60" :> 60)

DaysIn(year, month) ==
    IF month = 2
    THEN IF year % 4 = 0 /\ (year % 100 # 0 \/ year % 400 = 0) THEN 29 ELSE 28
    ELSE IF month \in {4, 6, 9, 11} THEN 30 ELSE 31

\* datetime.strptime(s, fmt) for fmt = %Y <sep> %m <sep> %d " " %H:%M:%S: the
\* naive datetime, or a raise when the text does not match or names no date
strptime(s, sep) ==
    IF /\ Len(s) = 11
       /\ << s[2], s[4], s[6], s[8], s[10] >> = << sep, sep, " ", ":", ":" >>
       /\ \A i \in {1, 3, 5, 7, 9, 11} : s[i] \in DOMAIN NumberOf
       /\ Len(s[1]) = 4
    THEN LET n == [i \in {1, 3, 5, 7, 9, 11} |-> NumberOf[s[i]]] IN
         IF /\ n[1] \in 1..9999 /\ n[3] \in 1..12 /\ n[5] \in 1..DaysIn(n[1], n[3])
            /\ n[7] \in 0..23 /\ n[9] \in 0..59 /\ n[11] \in 0..59
         THEN [t |-> "datetime", year |-> n[1], month |-> n[3], day |-> n[5],
               hour |-> n[7], minute |-> n[9], second |-> n[11], tzinfo |-> None]
         ELSE Raised
    ELSE Raised

photoTakenTime == PyStr(<< "photoTakenTime" >>)
timestamp == PyStr(<< "timestamp" >>)
datetime_original == PyStr(<< "datetime_original" >>)

\* the try block of _normalize_taken_at: the value it returns, Raised when
\* an exception is swallowed, PyNone when ts is falsy
from_google_json(google_meta) ==
    LET taken == dict_get(google_meta, photoTakenTime, PyDict(<< >>))
        ts == IF taken = Raised THEN Raised ELSE dict_get(taken, timestamp, PyNone)
    IN  IF ts = Raised THEN Raised
        ELSE IF ~truthy(ts) THEN PyNone
        ELSE IF int(ts) = Raised THEN Raised
        ELSE fromtimestamp(int(ts))

\* the fallback of _normalize_taken_at: the two formats in their order
from_exif(exif_meta) ==
    LET dt_str == dict_get(exif_meta, datetime_original, PyNone) IN
    IF dt_str.t # "str" THEN PyNone
    ELSE IF strptime(dt_str.str, ":") # Raised THEN strptime(dt_str.str, ":")
    ELSE IF strptime(dt_str.str, "-") # Raised THEN strptime(dt_str.str, "-")
    ELSE PyNone

\* faulty variant: the EXIF date is preferred to the sidecar
_normalize_taken_at_exif_first(exif_meta, google_meta) ==
    IF from_exif(exif_meta) # PyNone THEN from_exif(exif_meta)
    ELSE IF from_google_json(google_meta) \notin {Raised, PyNone}
    THEN from_google_json(google_meta)
    ELSE PyNone

_normalize_taken_at(exif_meta, google_meta) ==
    IF from_google_json(google_meta) \notin {Raised, PyNone}
    THEN from_google_json(google_meta)
    ELSE from_exif(exif_meta)

\* sidecars as json.loads gives them, by their photoTakenTime.timestamp
WithTimestamp(ts) == PyDict(<< << photoTakenTime, PyDict(<< << timestamp, ts >> >>) >> >>)

Timestamps ==
    { PyStr(<< "1", "5", "0", "0", "0", "0", "0", "0", "0", "0" >>),
      PyInt(1, << 1, 5, 0, 0, 0, 0, 0, 0, 0, 0 >>),
      PyStr(<< "0" >>),
      PyStr(<< " ", "1", "2", " " >>),
      PyStr(<< "-", "1" >>),
      PyStr(<< "0", "0", "7" >>),
      PyStr(<< "2", "5", "3", "4", "0", "2", "3", "0", "0", "7", "9", "9" >>),
      PyStr(<< "2", "5", "3", "4", "0", "2", "3", "0", "0", "8", "0", "0" >>),
      PyInt(-1, << 6, 2, 1, 3, 5, 5, 9, 6, 8, 0, 1 >>),
      PyFloat(1, << 1 >>, << 5 >>),
      PyBool(TRUE),
      PyNone,
      PyStr(<< >>),
      PyInt(1, << 0 >>),
      PyStr(<< "a", "b", "c" >>),
      PyStr(<< "1", ".", "5" >>),
      PyStr(<< "-" >>),
      PyList(<< PyInt(1, << 1 >>) >>) }

GoogleMetas ==
    { WithTimestamp(ts) : ts \in Timestamps } \cup
    { PyDict(<< >>),
      PyDict(<< << photoTakenTime, PyDict(<< >>) >> >>),
      PyDict(<< << photoTakenTime, PyStr(<< "1", "5" >>) >> >>),
      PyDict(<< << PyStr(<< "title" >>), PyStr(<< "a" >>) >> >>),
      PyList(<< PyInt(1, << 1 >>) >>),
      PyStr(<< "1", "5" >>) }

\* the normalized EXIF of _parse_exif, by its datetime_original
WithDate(dt_str) == PyDict(<< << datetime_original, dt_str >> >>)

ExifMetas ==
    { WithDate(PyStr(<< "2020", ":", "01", ":", "02", " ", "03", ":", "04", ":", "05" >>)),
      WithDate(PyStr(<< "2020", "-", "01", "-", "02", " ", "03", ":", "04", ":", "05" >>)),
      WithDate(PyStr(<< "2020", ":", "02", ":", "29", " ", "23", ":", "59", ":", "59" >>)),
      WithDate(PyStr(<< "2021", ":", "02", ":", "29", " ", "23", ":", "59", ":", "59" >>)),
      WithDate(PyStr(<< "0000", ":", "00", ":", "00", " ", "00", ":", "00", ":", "00" >>)),
      WithDate(PyStr(<< "2020", "/", "01", "/", "02", " ", "03", ":", "04", ":", "05" >>)),
      WithDate(PyStr(<< "2020", ":", "01", "-", "02", " ", "03", ":", "04", ":", "05" >>)),
      WithDate(PyStr(<< "2020", ":", "13", ":", "01", " ", "00", ":", "00", ":", "00" >>)),
      WithDate(PyStr(<< "2020", ":", "01", ":", "02", " ", "24", ":", "00", ":", "00" >>)),
      WithDate(PyStr(<< "2020", ":", "01", ":", "02", "T", "03", ":", "04", ":", "05" >>)),
      WithDate(PyStr(<< "2020", ":", "01", ":", "02" >>)),
      WithDate(PyStr(<< >>)),
      WithDate(PyNone),
      WithDate(PyList(<< PyStr(<< "2020", ":", "01", ":", "02", " ", "03", ":", "04", ":", "05" >>) >>)),
      PyDict(<< >>) }

Pending == [t |-> "pending"]

\* the frame of a step that only applies a function to its arguments
CallOnly ==
    UNCHANGED << root, content, photos, ingest_status, pc, args, actual_batch_id, cur, batch,
                 tasks, semaphore, processed, skipped, exc, faults, _event_subscribers,
                 queues, handler, api_vars >>

\* taken_at = _normalize_taken_at(exif_meta, google_meta=google_json)
normalize_taken_at ==
    /\ call.fn = "_normalize_taken_at"
    /\ call.result = Pending
    /\ call' = [call EXCEPT !.result = _normalize_taken_at(call.exif_meta, call.google_meta)]
    /\ CallOnly

\* the state in which one function of the worker is about to be applied
InitCall(calls) ==
    /\ InitApi
    /\ settings = [takeout_path |-> "/takeout"]
    /\ call \in calls
    /\ root = << >>
    /\ content = [r \in Runs |-> 1]
    /\ photos = << >>
    /\ ingest_status = << >>
    /\ pc = [r \in Runs |-> "idle"]
    /\ args = [r \in Runs |-> NoArgs]
    /\ actual_batch_id = [r \in Runs |-> None]
    /\ cur = [r \in Runs |-> NoCursor]
    /\ batch = [r \in Runs |-> << >>]
    /\ tasks = [r \in Runs |-> << >>]
    /\ semaphore = [r \in Runs |-> SemaphoreSlots]
    /\ processed = [r \in Runs |-> 0]
    /\ skipped = [r \in Runs |-> 0]
    /\ exc = [r \in Runs |-> None]
    /\ faults = 0
    /\ _event_subscribers = {}
    /\ queues = << >>

InitTakenAt ==
    InitCall({ [fn |-> "_normalize_taken_at", exif_meta |-> e, google_meta |-> g,
                result |-> Pending] : e \in ExifMetas, g \in GoogleMetas })

SpecTakenAt == InitTakenAt /\ [][normalize_taken_at]_vars

(* ------------------------ _make_json_serializable --------------------- *)
\* s.replace("\x00", ""): the pieces of s that are no NUL character
RECURSIVE replace_nul(_)
replace_nul(s) ==
    IF s = << >> THEN << >>
    ELSE IF Head(s) = "NUL" THEN replace_nul(Tail(s))
    ELSE << Head(s) >> \o replace_nul(Tail(s))

\* b.decode("utf-8", errors="ignore"): the bytes that are no UTF-8 are left out
RECURSIVE decode(_)
decode(b) ==
    IF b = << >> THEN << >>
    ELSE IF Head(b) = "0xff" THEN decode(Tail(b))
    ELSE << Head(b) >> \o decode(Tail(b))

\* d[k] = v in a dict under construction: a key already there keeps its
\* place and takes the new value
setitem(items, k, v) ==
    LET at == {i \in DOMAIN items : items[i][1] = k} IN
    IF at = {} THEN Append(items, << k, v >>)
    ELSE [items EXCEPT ![CHOOSE i \in at : TRUE] = << k, v >>]

RECURSIVE comprehension(_)
\* {k: v for k, v in ...}: the items are set one after another
comprehension(items) ==
    IF items = << >> THEN << >>
    ELSE LET last == items[Len(items)] IN
         setitem(comprehension(SubSeq(items, 1, Len(items) - 1)), last[1], last[2])

\* str(k) of a key that is no str
str(k) ==
    CASE k.t = "int" ->
           PyStr((IF k.sign = -1 THEN << "-" >> ELSE << >>) \o
                 [i \in DOMAIN k.digits |-> CHOOSE c \in DOMAIN DigitOf : DigitOf[c] = k.digits[i]])
      [] k.t = "bool" -> PyStr(<< IF k.bool THEN "True" ELSE "False" >>)
      [] k.t = "NoneType" -> PyStr(<< "None" >>)
      [] OTHER -> PyStr(k.text)

RECURSIVE _make_json_serializable(_)
_make_json_serializable(obj) ==
    CASE obj.t = "NoneType" -> PyNone
      [] obj.t = "bytes" -> PyStr(replace_nul(decode(obj.bytes)))
      [] obj.t = "str" -> PyStr(replace_nul(obj.str))
      [] obj.t = "tuple" ->
           PyList([i \in DOMAIN obj.tuple |-> _make_json_serializable(obj.tuple[i])])
      [] obj.t = "list" ->
           PyList([i \in DOMAIN obj.list |-> _make_json_serializable(obj.list[i])])
      [] obj.t = "dict" ->
           PyDict(comprehension(
               [i \in DOMAIN obj.dict |->
                   << PyStr(replace_nul((IF obj.dict[i][1].t = "str" THEN obj.dict[i][1]
                                         ELSE str(obj.dict[i][1])).str)),
                      _make_json_serializable(obj.dict[i][2]) >>]))
      [] obj.t \in {"int", "float", "bool"} -> obj
      [] OTHER -> PyStr(replace_nul(obj.text))

\* the values a sidecar or an EXIF tag holds
Scalars ==
    { PyNone, PyBool(TRUE), PyInt(1, << 7 >>), PyFloat(1, << 1 >>, << 5 >>),
      PyStr(<< "a" >>), PyStr(<< "a", "NUL", "b" >>), PyStr(<< "NUL" >>),
      PyBytes(<< "a", "NUL", "0xff" >>), PyObject(<< "1", "/", "NUL", "2" >>) }

\* the keys of a JSON object, and the tag number of a nested EXIF directory
Keys == { PyStr(<< "a" >>), PyStr(<< "a", "NUL" >>), PyStr(<< "NUL", "b" >>), PyInt(1, << 7 >>) }

\* lists, tuples and dicts of at most two of the given values
ContainersOf(values) ==
    LET seqs == {<< >>} \cup {<< v >> : v \in values} \cup {<< v, w >> : v, w \in values} IN
    { PyList(s) : s \in seqs } \cup { PyTuple(<< v >>) : v \in values } \cup
    { PyDict(<< >>) } \cup
    { PyDict(<< << k, v >> >>) : k \in Keys, v \in values } \cup
    { PyDict(<< << kl[1], v >>, << kl[2], w >> >>) :
          kl \in {p \in Keys \X Keys : p[1] # p[2]},
          v \in values, w \in {PyStr(<< "a" >>), PyInt(1, << 7 >>)} }

\* metadata nested two deep
Metadata ==
    Scalars \cup ContainersOf(Scalars) \cup
    { PyList(<< c >>) : c \in ContainersOf({PyStr(<< "a", "NUL", "b" >>), PyInt(1, << 7 >>)}) } \cup
    { PyDict(<< << PyStr(<< "raw" >>), c >> >>) :
          c \in ContainersOf({PyStr(<< "a", "NUL", "b" >>), PyInt(1, << 7 >>)}) }

\* "exif": _make_json_serializable(item["exif"])
make_json_serializable ==
    /\ call.fn = "_make_json_serializable"
    /\ call.result = Pending
    /\ call' = [call EXCEPT !.result = _make_json_serializable(call.obj)]
    /\ CallOnly

\* the stored value is sanitized once more (a reprocessed item)
make_json_serializable_again ==
    /\ call.fn = "_make_json_serializable"
    /\ call.result # Pending
    /\ call.again = Pending
    /\ call' = [call EXCEPT !.again = _make_json_serializable(call.result)]
    /\ CallOnly

InitSanitize ==
    InitCall({ [fn |-> "_make_json_serializable", obj |-> m, result |-> Pending,
                again |-> Pending] : m \in Metadata })

NextSanitize == make_json_serializable \/ make_json_serializable_again

SpecSanitize == InitSanitize /\ [][NextSanitize]_vars

(* =============================== claims =============================== *)
\* ids of the photo rows with a source URI, of the batch rows with an identifier
RowsOf(uri) == {k \in DOMAIN photos : photos[k].source_uri = uri}

BatchRows(id) == {k \in DOMAIN ingest_status : ingest_status[k].batch_id = id}

\* C1: whatever the interleaving of runs and of the items of a chunk, the
\* photos table holds at most one row per source URI.
C1_OneRecordPerSourceUri ==
    \A i, j \in DOMAIN photos :
        photos[i].source_uri = photos[j].source_uri => i = j

\* C1 witness: without any injected failure, a task of one run lost the
\* insert race for a source URI to a row written for another batch identifier.
C1_Witness ==
    /\ faults = 0
    /\ \E r \in Runs, i \in 1..batch_size :
          /\ i \in DOMAIN tasks[r]
          /\ tasks[r][i] = Task("done", 0, << FALSE, FALSE >>)
          /\ \E k \in RowsOf(batch[r][i].source_uri) :
                photos[k].batch_id # actual_batch_id[r]

\* C2: a run that returned with every item processed, followed by a run over
\* the same root with the same limit and reprocess = false in which no
\* storage call fails: the second run adds no photo row and returns with
\* processed = 0 and skipped = the number of items it was given.
SecondRun(r, o) ==
    /\ Before(o, r)
    /\ pc[o] = "returned"
    /\ processed[o] = cur[o].count
    /\ pc[r] # "idle"
    /\ ~args[r].reprocess
    /\ args[r].limit = args[o].limit

C2_Counts ==
    \A r, o \in Runs :
        SecondRun(r, o) /\ faults = 0 /\ pc[r] = "returned" =>
            /\ processed[r] = 0
            /\ skipped[r] = cur[r].count
            /\ cur[r].count = cur[o].count

SelectReturns(r, i) ==
    /\ i \in DOMAIN tasks[r]
    /\ tasks[r][i].st = "acquired"
    /\ tasks'[r][i] # tasks[r][i]
    /\ faults' = faults

\* the write of item i of run r returns, no failure injected
WriteReturns(r, i) ==
    /\ i \in DOMAIN tasks[r]
    /\ tasks[r][i].st \in {"updating", "inserting"}
    /\ tasks'[r][i] # tasks[r][i]
    /\ faults' = faults

\* row holds exactly what was extracted for item, owned by batch id
HoldsItem(row, item, id) ==
    /\ row.source_uri = item.source_uri
    /\ row.filename = item.filename
    /\ row.file_size = item.file_size
    /\ row.mime_type = item.mime_type
    /\ row.taken_at = item.taken_at
    /\ row.raw_metadata = [exif |-> item.exif, google |-> item.google_json]
    /\ row.batch_id = id

C5_TerminalStatusFinal ==
    [][\A k \in DOMAIN ingest_status :
        ingest_status[k].status \in {"completed", "error"}
            => ingest_status'[k].status = ingest_status[k].status]_vars

\* C6: when the batch has been resolved (created or fetched) and no item has
\* been pulled yet, the batch row's status is running.
C6_RunningAfterResolve ==
    \A r \in Runs :
        pc[r] = "stream" /\ cur[r].count = 0
            => \A k \in BatchRows(actual_batch_id[r]) :
                  ingest_status[k].status = "running"

\* C7: runs made one after another leave at most one batch row per
\* identifier, and a run given an identifier that has a row goes on with that
\* row and adds none.
C7_Attach(r) ==
    pc[r] = "resolve" /\ pc'[r] # "resolve" /\ faults' = faults
        /\ BatchRows(ResolvedId(r)) # {}
    => /\ pc'[r] = "stream"
       /\ actual_batch_id'[r] = ResolvedId(r)
       /\ ingest_status' = ingest_status

C7_OneBatchPerIdentifier ==
    /\ [](\A i, j \in DOMAIN ingest_status :
            ingest_status[i].batch_id = ingest_status[j].batch_id => i = j)
    /\ [][\A r \in Runs : C7_Attach(r)]_vars

\* C7 witness: the second run streams under the identifier of the first, and
\* the table holds one row.
C7_Witness ==
    \E r, o \in Runs :
        /\ Before(o, r)
        /\ pc[r] = "stream"
        /\ actual_batch_id[o] # None
        /\ actual_batch_id[r] = actual_batch_id[o]
        /\ Len(ingest_status) = 1

\* C8: a failing persistence of one item (an injected storage failure, or an
\* insert the unique constraint rejects) reports the item (False, False) and
\* touches neither its siblings, nor the run's position, counters and batch
\* row, nor any photo; the gather then counts every other item and the run
\* goes on to the next chunk; a run that reaches its end marks the batch
\* completed.
C8_Fails(r, i) ==
    /\ i \in DOMAIN tasks[r]
    /\ tasks[r][i].st \in InFlightStates
    /\ tasks'[r][i] # tasks[r][i]
    /\ \/ faults' # faults
       \/ tasks[r][i].st = "inserting" /\ RowsOf(batch[r][i].source_uri) # {}

C8_SiblingsGoOn(r, i) ==
    \A j \in DOMAIN tasks[r] \ {i} :
        \/ tasks'[r][j] = tasks[r][j]
        \/ /\ tasks[r][j].st = "waiting"
           /\ tasks'[r][j] = [tasks[r][j] EXCEPT !.st = "acquired"]

C8_Counted(r, res) == Cardinality({i \in DOMAIN tasks[r] : tasks[r][i].result = res})

C8_GatherReturns(r) ==
    /\ pc[r] \in {"gather", "gather_last"}
    /\ pc'[r] # pc[r]

C8_ItemFailureIsolated ==
    [][\A r \in Runs :
        /\ \A i \in 1..batch_size :
              C8_Fails(r, i)
                 => /\ tasks'[r][i] = Task("done", 0, << FALSE, FALSE >>)
                    /\ C8_SiblingsGoOn(r, i)
                    /\ DOMAIN tasks'[r] = DOMAIN tasks[r]
                    /\ pc' = pc /\ exc' = exc
                    /\ processed' = processed /\ skipped' = skipped
                    /\ photos' = photos /\ ingest_status' = ingest_status
        /\ C8_GatherReturns(r)
              => /\ processed'[r] = processed[r] + C8_Counted(r, << TRUE, FALSE >>)
                 /\ skipped'[r] = skipped[r] + C8_Counted(r, << FALSE, TRUE >>)
                 /\ pc'[r] \in {"stream", "finalize"} \/ faults' # faults
        /\ pc[r] = "finalize" /\ pc'[r] # "finalize" /\ faults' = faults
              => /\ pc'[r] = "returned"
                 /\ \A k \in BatchRows(actual_batch_id[r]) :
                       /\ ingest_status'[k].status = "completed"
                       /\ ingest_status'[k].processed_files = processed[r]
                       /\ ingest_status'[k].skipped_files = skipped[r]]_vars

\* C8 witness: a run over more than one chunk has returned and its batch is
\* completed, though one of its items failed and is in neither counter.
C8_Witness ==
    \E r \in Runs :
        /\ pc[r] = "returned"
        /\ cur[r].count > batch_size
        /\ processed[r] + skipped[r] = cur[r].count - 1
        /\ faults = 1
        /\ \E k \in BatchRows(actual_batch_id[r]) :
              /\ ingest_status[k].status = "completed"
              /\ ingest_status[k].processed_files = processed[r]

\* C9: the persistence operations in flight in a run never exceed the
\* semaphore's capacity, whatever the size of the chunk dispatched.
InFlight(r) == Cardinality({i \in DOMAIN tasks[r] : tasks[r][i].st \in InFlightStates})

C9_BoundedInFlight ==
    \A r \in Runs :
        /\ InFlight(r) <= SemaphoreSlots
        /\ semaphore[r] = SemaphoreSlots - InFlight(r)

\* C9 witness: every slot is taken while an item of the chunk still waits.
C9_Witness ==
    \E r \in Runs :
        /\ Len(tasks[r]) > SemaphoreSlots
        /\ InFlight(r) = SemaphoreSlots
        /\ \E i \in DOMAIN tasks[r] : tasks[r][i].st = "waiting"

\* C10: when a full chunk of a run completes, every subscriber that stays
\* registered gets one more event in its queue.
C10_ProgressPerChunk ==
    [][\A r \in Runs :
        pc[r] = "gather" /\ pc'[r] = "stream"
            => \A q \in _event_subscribers \cap _event_subscribers' :
                  Len(queues'[q]) = Len(queues[q]) + 1]_vars

\* C11: a step that changes the persisted processed/skipped counters of a
\* batch row is taken by a run of that batch none of whose items is waiting
\* or in flight, and writes the run's totals over all the chunks whose
\* results are collected: the totals so far plus the results of this chunk.
C11_Results(r, res) ==
    Cardinality({i \in DOMAIN tasks[r] : tasks[r][i].result = res})

C11_CountersAfterWholeChunk ==
    [][\A k \in DOMAIN ingest_status :
        \/ ingest_status'[k].processed_files # ingest_status[k].processed_files
        \/ ingest_status'[k].skipped_files # ingest_status[k].skipped_files
        => \E r \in Runs :
              /\ pc'[r] # pc[r]
              /\ ingest_status[k].batch_id = actual_batch_id[r]
              /\ \A i \in DOMAIN tasks[r] : tasks[r][i].st = "done"
              /\ ingest_status'[k].processed_files =
                    processed[r] + C11_Results(r, << TRUE, FALSE >>)
              /\ ingest_status'[k].skipped_files =
                    skipped[r] + C11_Results(r, << FALSE, TRUE >>)]_vars

\* C11 witness: the counters of a running batch hold the results of the
\* first chunk, one of whose items failed, and the stream goes on.
C11_Witness ==
    \E r \in Runs :
        /\ pc[r] = "stream"
        /\ cur[r].count = batch_size
        /\ \E k \in BatchRows(actual_batch_id[r]) :
              /\ ingest_status[k].status = "running"
              /\ ingest_status[k].processed_files = processed[r]
              /\ ingest_status[k].skipped_files = skipped[r]
              /\ processed[r] + skipped[r] = batch_size - 1
              /\ processed[r] > 0

\* C12: a run returns only by marking its batch completed with a completion
\* timestamp and with the run's totals as counters, and the totals take in
\* the results of the remaining items gathered after the stream has ended:
\* every item of the run has then been gathered and counted or has failed.
C12_Outcomes(r, res) ==
    Cardinality({i \in DOMAIN tasks[r] : tasks[r][i].result = res})

C12_CompletedWithAllCounts ==
    [][\A r \in Runs :
        /\ pc[r] = "gather_last" /\ pc'[r] # pc[r]
            => /\ cur[r].count = cur'[r].count
               /\ processed'[r] = processed[r] + C12_Outcomes(r, << TRUE, FALSE >>)
               /\ skipped'[r] = skipped[r] + C12_Outcomes(r, << FALSE, TRUE >>)
               /\ Len(tasks[r]) = Len(batch[r])
               /\ tasks'[r] = << >>
        /\ pc[r] # "returned" /\ pc'[r] = "returned"
            => /\ tasks[r] = << >>
               /\ BatchRows(actual_batch_id[r]) # {}
               /\ \A k \in BatchRows(actual_batch_id[r]) :
                     /\ ingest_status'[k].status = "completed"
                     /\ ingest_status'[k].completed_at # None
                     /\ ingest_status'[k].processed_files = processed[r]
                     /\ ingest_status'[k].skipped_files = skipped[r]]_vars

\* C12 witness: a run over a full chunk and one remaining item has returned,
\* and its completed batch row counts every item of the run.
C12_Witness ==
    \E r \in Runs :
        /\ pc[r] = "returned"
        /\ cur[r].count = batch_size + 1
        /\ \E k \in BatchRows(actual_batch_id[r]) :
              /\ ingest_status[k].status = "completed"
              /\ ingest_status[k].completed_at # None
              /\ ingest_status[k].processed_files + ingest_status[k].skipped_files
                    = cur[r].count

\* C13: whenever an exception leaves a run, the run's batch row is marked
\* error with the exception's message.
C13_EscapeMarksError ==
    [][\A r \in Runs :
        pc[r] # "raised" /\ pc'[r] = "raised"
            => \E k \in DOMAIN ingest_status' :
                  /\ ingest_status'[k].batch_id \in {actual_batch_id'[r], args[r].batch_id}
                  /\ ingest_status'[k].status = "error"
                  /\ ingest_status'[k].error_message = exc'[r]]_vars

(* ------------------- claims on stream_zip_metadata -------------------- *)
\* The image-like members of a container, told by the extension in any
\* spelling, and the items a run has been given from a container.
ImageSuffixes ==
    {".jpg", ".JPG", ".jpeg", ".Jpeg", ".png", ".PNG", ".heic", ".HEIC",
     ".webp", ".tif", ".tiff"}

ImagesIn(zip) ==
    {m \in DOMAIN zip.infolist :
        ~zip.infolist[m].is_dir /\ zip.infolist[m].suffix \in ImageSuffixes}

ItemsFrom(r, zip) ==
    {j \in DOMAIN batch[r] : batch[r][j].source_uri[2] = zip.name}

\* the containers a run's stream is to use: all of them, or with
\* non-recursive discovery those directly in the root
Containers(r) ==
    {z \in DOMAIN root : args[r].recursive \/ root[z].depth = 1}

RECURSIVE ImagesUpTo(_, _)
ImagesUpTo(r, z) ==
    IF z = 0 THEN 0
    ELSE ImagesUpTo(r, z - 1)
         + (IF z \in Containers(r) /\ root[z].readable
            THEN Cardinality(ImagesIn(root[z])) ELSE 0)

\* C14: the stream never raises because of an unreadable container, and
\* with no limit it ends having produced the images of every readable
\* container.
C14_BadContainerSkipped ==
    \A r \in Runs :
        /\ pc[r] # "raised"
        /\ pc[r] = "exhausted" /\ args[r].limit = {}
            => Len(batch[r]) = ImagesUpTo(r, Len(root))

\* C15: with limit L the stream never produces more than L items, and it
\* produces exactly L when L >= 1 and the containers hold at least L images.
C15_AtMostLimit ==
    \A r \in Runs : \A l \in args[r].limit :
        /\ Len(batch[r]) <= l
        /\ pc[r] = "exhausted" /\ l >= 1 /\ ImagesUpTo(r, Len(root)) >= l
            => Len(batch[r]) = l

\* C16: the limit counts the items of the whole sequence, whatever the
\* containers they come from, and once an item has brought the count to the
\* limit the next resumption ends the stream where it stands: nothing more
\* is produced and the position moves to no further member or container.
C16_Reached(r) ==
    Len(batch[r]) >= 1 /\ \E l \in args[r].limit : Len(batch[r]) >= l

C17_OneItemPerImage ==
    \A r \in Runs :
        pc[r] = "exhausted" /\ args[r].limit = {}
            => /\ \A z \in Containers(r) :
                     /\ Cardinality(ItemsFrom(r, root[z])) = Cardinality(ImagesIn(root[z]))
                     /\ {batch[r][j].source_uri[4] : j \in ItemsFrom(r, root[z])}
                           = {root[z].infolist[m].filename : m \in ImagesIn(root[z])}
               /\ Len(batch[r]) = ImagesUpTo(r, Len(root))

\* C17 witness: an empty container gave nothing and a container with two
\* images, a sidecar, a directory and a text file gave two items.
C17_Witness ==
    \E r \in Runs :
        /\ pc[r] = "exhausted" /\ args[r].limit = {}
        /\ Len(batch[r]) = 2
        /\ \E z \in Containers(r) : root[z].infolist = << >>
        /\ \E z \in Containers(r) :
              /\ Cardinality(ImagesIn(root[z])) = 2
              /\ Len(root[z].infolist) = 5
              /\ Cardinality(ItemsFrom(r, root[z])) = 2

Broadcast == \E p \in DOMAIN queues : Len(queues'[p]) > Len(queues[p])

\* C19: a subscriber that does not read, so that its queue holds as many
\* events as a bounded queue would take (any capacity below MaxPending), is
\* removed from the subscribers by the next broadcast, and the event still
\* reaches every other subscriber.
C19_Saturated(q) == Len(queues[q]) >= MaxPending - 1

C19_SaturatedDropped ==
    [][\A q \in _event_subscribers :
        C19_Saturated(q) /\ Broadcast
            => /\ q \notin _event_subscribers'
               /\ \A p \in _event_subscribers :
                     ~C19_Saturated(p) => Len(queues'[p]) = Len(queues[p]) + 1]_vars

\* C20: the events pending in a queue created by subscribe() never exceed
\* a fixed capacity: no queue comes to hold MaxPending events.
C20_QueueBounded ==
    \A q \in DOMAIN queues : Len(queues[q]) < MaxPending

\* C21: the queue subscribe() creates is empty, so that it holds none of the
\* events broadcast before, and a queue that is not (or no longer) among the
\* subscribers is given no event: what a queue holds is what was broadcast
\* while it was registered.
C21_OnlyWhileSubscribed ==
    [][/\ \A q \in DOMAIN queues' \ DOMAIN queues : queues'[q] = << >>
       /\ \A q \in DOMAIN queues :
             /\ q \notin _event_subscribers => queues'[q] = queues[q]
             /\ q \in DOMAIN queues'
             /\ Len(queues'[q]) <= Len(queues[q]) + 1]_vars

\* C21 witness: the first queue was unsubscribed holding one event; the
\* second, subscribed later, holds the two events broadcast since and not
\* the earlier one.
C21_Witness ==
    /\ Len(queues) = 2
    /\ _event_subscribers = {2}
    /\ queues[1] = << "progress" >>
    /\ queues[2] = << "completed", "completed" >>

\* C22: a handler that has ended after subscribing has its queue out of the
\* subscribers, and every queue among the subscribers belongs to a handler
\* that has not ended.
C22_EndedHandlerUnsubscribed ==
    /\ \A h \in DOMAIN handler :
          handler[h].pc = "ended" /\ handler[h].queue # 0
              => handler[h].queue \notin _event_subscribers
    /\ \A q \in _event_subscribers :
          \E h \in DOMAIN handler : handler[h].queue = q /\ handler[h].pc # "ended"

\* C22 witness: a handler has ended with events left unread in its queue,
\* while the other connection's handler is still subscribed.
C22_Witness ==
    \E h, g \in DOMAIN handler :
        /\ handler[h].pc = "ended" /\ handler[h].queue # 0
        /\ queues[handler[h].queue] # << >>
        /\ handler[g].pc = "wait"
        /\ handler[g].queue \in _event_subscribers

\* the sidecars with a usable timestamp (present, not empty or zero, an
\* integer in text or number, within the years 1..9999), with their epoch
C23_Epoch ==
    (WithTimestamp(PyStr(<< "1", "5", "0", "0", "0", "0", "0", "0", "0", "0" >>))
        :> PyInt(1, << 1, 5, 0, 0, 0, 0, 0, 0, 0, 0 >>)) @@
    (WithTimestamp(PyInt(1, << 1, 5, 0, 0, 0, 0, 0, 0, 0, 0 >>))
        :> PyInt(1, << 1, 5, 0, 0, 0, 0, 0, 0, 0, 0 >>)) @@
    (WithTimestamp(PyStr(<< "0" >>)) :> PyInt(1, << 0 >>)) @@
    (WithTimestamp(PyStr(<< " ", "1", "2", " " >>)) :> PyInt(1, << 1, 2 >>)) @@
    (WithTimestamp(PyStr(<< "-", "1" >>)) :> PyInt(-1, << 1 >>)) @@
    (WithTimestamp(PyStr(<< "0", "0", "7" >>)) :> PyInt(1, << 7 >>)) @@
    (WithTimestamp(PyStr(<< "2", "5", "3", "4", "0", "2", "3", "0", "0", "7", "9", "9" >>))
        :> PyInt(1, << 2, 5, 3, 4, 0, 2, 3, 0, 0, 7, 9, 9 >>)) @@
    (WithTimestamp(PyFloat(1, << 1 >>, << 5 >>)) :> PyInt(1, << 1 >>)) @@
    (WithTimestamp(PyBool(TRUE)) :> PyInt(1, << 1 >>))

\* a naive datetime
C23_Naive(y, m, d, H, M, S) ==
    [t |-> "datetime", year |-> y, month |-> m, day |-> d,
     hour |-> H, minute |-> M, second |-> S, tzinfo |-> None]

\* the EXIF metadata whose date string one of the two formats parses
C23_Date ==
    (WithDate(PyStr(<< "2020", ":", "01", ":", "02", " ", "03", ":", "04", ":", "05" >>))
        :> C23_Naive(2020, 1, 2, 3, 4, 5)) @@
    (WithDate(PyStr(<< "2020", "-", "01", "-", "02", " ", "03", ":", "04", ":", "05" >>))
        :> C23_Naive(2020, 1, 2, 3, 4, 5)) @@
    (WithDate(PyStr(<< "2020", ":", "02", ":", "29", " ", "23", ":", "59", ":", "59" >>))
        :> C23_Naive(2020, 2, 29, 23, 59, 59))

\* C23: the capture timestamp is the sidecar's epoch value in UTC when the
\* sidecar has a usable timestamp, whatever the EXIF date; otherwise the
\* EXIF date parsed by the first matching format; otherwise null; the
\* resolution never raises.
C23_FallbackOrder ==
    (call.fn = "_normalize_taken_at" /\ call.result # Pending) =>
        /\ call.result # Raised
        /\ call.result =
              IF call.google_meta \in DOMAIN C23_Epoch
              THEN [t |-> "datetime", timestamp |-> C23_Epoch[call.google_meta],
                    tzinfo |-> "UTC"]
              ELSE IF call.exif_meta \in DOMAIN C23_Date
              THEN C23_Date[call.exif_meta]
              ELSE PyNone

\* C23 witness: a sidecar with a usable timestamp and a parsable EXIF date
\* of another day are resolved to the sidecar's instant.
C23_Witness ==
    /\ call.fn = "_normalize_taken_at"
    /\ call.google_meta \in DOMAIN C23_Epoch
    /\ call.exif_meta \in DOMAIN C23_Date
    /\ call.result # Pending
    /\ call.result.tzinfo = "UTC"

RECURSIVE C24_NoNul(_)
\* no NUL in any string value or key of x, at any depth
C24_NoNul(x) ==
    CASE x.t = "str" -> \A i \in DOMAIN x.str : x.str[i] # "NUL"
      [] x.t = "list" -> \A i \in DOMAIN x.list : C24_NoNul(x.list[i])
      [] x.t = "dict" ->
           \A i \in DOMAIN x.dict : C24_NoNul(x.dict[i][1]) /\ C24_NoNul(x.dict[i][2])
      [] OTHER -> x.t \in {"NoneType", "int", "float", "bool"}

RECURSIVE C24_SameStructure(_, _)
\* y has the nesting of x, with as many entries in every map and sequence,
\* and the numbers and booleans of x
C24_SameStructure(x, y) ==
    CASE x.t \in {"list", "tuple"} ->
           LET xs == IF x.t = "list" THEN x.list ELSE x.tuple IN
           /\ y.t = "list"
           /\ Len(y.list) = Len(xs)
           /\ \A i \in DOMAIN xs : C24_SameStructure(xs[i], y.list[i])
      [] x.t = "dict" ->
           /\ y.t = "dict"
           /\ Len(y.dict) = Len(x.dict)
           /\ \A i \in DOMAIN x.dict : C24_SameStructure(x.dict[i][2], y.dict[i][2])
      [] x.t \in {"NoneType", "int", "float", "bool"} -> y = x
      [] OTHER -> y.t = "str"

\* C24: the sanitized value has no NUL in any string or key, has the
\* structure of the original (nesting, number of entries, numbers and
\* booleans), and sanitizing it again changes nothing.
C24_SanitizedIntact ==
    (call.fn = "_make_json_serializable" /\ call.result # Pending) =>
        /\ C24_NoNul(call.result)
        /\ C24_SameStructure(call.obj, call.result)
        /\ call.again # Pending => call.again = call.result

\* C24, without the number of entries: no NUL is left and a second
\* sanitization changes nothing.
C24_NoNulAndStable ==
    (call.fn = "_make_json_serializable" /\ call.result # Pending) =>
        /\ C24_NoNul(call.result)
        /\ call.again # Pending => call.again = call.result

\* the text a key is stored under
C24_KeyText(k) ==
    IF k.t = "str" THEN SelectSeq(k.str, LAMBDA c : c # "NUL") ELSE << "7" >>

RECURSIVE C24_Collides(_)
\* somewhere in x a map has two keys that are stored under one text
C24_Collides(x) ==
    CASE x.t = "list" -> \E i \in DOMAIN x.list : C24_Collides(x.list[i])
      [] x.t = "tuple" -> \E i \in DOMAIN x.tuple : C24_Collides(x.tuple[i])
      [] x.t = "dict" ->
           \/ \E i, j \in DOMAIN x.dict :
                 i # j /\ C24_KeyText(x.dict[i][1]) = C24_KeyText(x.dict[j][1])
           \/ \E i \in DOMAIN x.dict : C24_Collides(x.dict[i][2])
      [] OTHER -> FALSE

\* C24, for the maps whose keys stay distinct: the structure is kept
C24_IntactUnlessKeysCollide ==
    (call.fn = "_make_json_serializable" /\ call.result # Pending
        /\ ~C24_Collides(call.obj))
    => C24_SameStructure(call.obj, call.result)

\* the paths that name no directory of the host
NoDirectory == {None, "", "/missing", "/file.txt"}

\* the root a request resolves to: its own path when it gives one, else
\* the runtime override when set, else the configured path
ResolvedRoot(request) ==
    IF request.takeout_path \notin {None, ""} THEN request.takeout_path
    ELSE IF _takeout_override # None THEN _takeout_override
    ELSE settings.takeout_path

\* C25: a trigger whose resolved root is unset or names no directory is
\* answered with status 400 and starts nothing (no run is created, no batch
\* row and no photo row changes); any other trigger is accepted and creates
\* the run whose batch identifier it returns.
C25_InvalidRootStartsNothing ==
    [][(response = NoResponse /\ response' # NoResponse) =>
          IF ResolvedRoot(response'.request) \in NoDirectory
          THEN /\ response'.status_code = 400
               /\ UNCHANGED << pc, args, content, ingest_status, photos, actual_batch_id,
                               batch, tasks, processed, skipped >>
          ELSE /\ response'.status_code = 202
               /\ \E r \in Runs :
                     /\ pc[r] = "idle" /\ pc'[r] = "resolve"
                     /\ args'[r].batch_id = response'.body.batch_id]_vars

\* C25 witness: a trigger naming a missing path is refused while the run of
\* an earlier trigger has created its batch row and is reading the stream.
C25_Witness ==
    /\ response.status_code = 400
    /\ response.request.takeout_path = "/missing"
    /\ settings.takeout_path = "/takeout"
    /\ pc["r1"] = "stream" /\ pc["r2"] = "idle"
    /\ Len(ingest_status) = 1

\* C26: a run created by an accepted trigger that has failed is shown by the
\* status query as a batch with the returned identifier, in status error,
\* with the failure message.
C26_FailedRunVisible ==
    \A r \in Runs :
        (pc[r] = "raised" /\ args[r].batch_id = uuid4(r)) =>
            \E k \in BatchRows(uuid4(r)) :
                /\ ingest_status[k].status = "error"
                /\ ingest_status[k].error_message = exc[r]

\* C27: a created run has the request's root, limit and reprocess where the
\* request gives them, else the stored override where set, else the
\* configured path, no limit, false; an accepted PUT stores the fields its
\* payload gives and keeps the others, DELETE clears all three, and no other
\* step changes an override.
C27_Precedence ==
    [][/\ \A r \in Runs :
            (pc[r] = "idle" /\ pc'[r] = "resolve") =>
                LET request == response'.request IN
                /\ args'[r].takeout_dir =
                      (("/takeout/" :> "/takeout") @@ ("/takeout" :> "/takeout") @@
                       ("/other" :> "/other") @@ ("." :> "."))[ResolvedRoot(request)]
                /\ args'[r].limit =
                      IF request.limit # {} THEN request.limit ELSE _ingest_limit_override
                /\ args'[r].reprocess =
                      IF request.reprocess # {} THEN TRUE \in request.reprocess
                      ELSE TRUE \in _ingest_reprocess_override
       /\ (response = NoResponse /\ response'.status_code = 200) =>
             LET payload == response'.request IN
             /\ _takeout_override' =
                   IF payload.takeout_path = None THEN _takeout_override
                   ELSE (("/takeout/" :> "/takeout") @@ ("/other" :> "/other") @@
                         ("" :> "."))[payload.takeout_path]
             /\ _ingest_limit_override' =
                   IF payload.limit = {} THEN _ingest_limit_override ELSE payload.limit
             /\ _ingest_reprocess_override' =
                   IF payload.reprocess = {} THEN _ingest_reprocess_override
                   ELSE payload.reprocess
       /\ (response = NoResponse /\ response'.status_code = 204) =>
             /\ _takeout_override' = None
             /\ _ingest_limit_override' = {}
             /\ _ingest_reprocess_override' = {}
       /\ response'.status_code \notin {200, 204} =>
             UNCHANGED << _takeout_override, _ingest_limit_override,
                          _ingest_reprocess_override >>]_vars

\* C27 witness: with all three overrides stored, a trigger that gives only a
\* limit has created a run with its own limit, the overrides' root and
\* reprocess flag.
C27_Witness ==
    /\ settings.takeout_path = "/takeout"
    /\ _takeout_override = "/other"
    /\ _ingest_limit_override = {1}
    /\ _ingest_reprocess_override = {TRUE}
    /\ response.status_code = 202
    /\ response.request = [limit |-> {2}, reprocess |-> {}, takeout_path |-> None]
    /\ args["r2"].takeout_dir = "/other"
    /\ args["r2"].limit = {2}
    /\ args["r2"].reprocess

\* the items run r pulls from the stream in this step
C29_Pulled(r) == cur'[r].count - cur[r].count

\* the tasks of run r that report their item processed or skipped
C29_Counted(r) ==
    Cardinality({i \in DOMAIN tasks[r] :
                    tasks[r][i].result \in {<< TRUE, FALSE >>, << FALSE, TRUE >>}})

\* a task is started for each of the n items run r has just pulled, and
\* for no other item
C29_Dispatched(r, n) ==
    /\ tasks[r] = << >>
    /\ Len(tasks'[r]) = n
    /\ Len(batch'[r]) = n
    /\ \A i \in DOMAIN tasks'[r] : tasks'[r][i].st \in {"acquired", "waiting"}

\* when the gathered tasks of run r are taken off, all have returned and
\* the counters grow by the number of items reported processed or skipped
C29_CountedOnce(r) ==
    (tasks[r] # << >> /\ tasks'[r] = << >>) =>
        /\ \A i \in DOMAIN tasks[r] :
              tasks[r][i].st = "done" /\ tasks[r][i].result # << TRUE, TRUE >>
        /\ processed'[r] + skipped'[r] = processed[r] + skipped[r] + C29_Counted(r)

C28_BatchCommittedFirst ==
    \A r \in Runs :
        /\ (\/ cur[r].count > 0 \/ batch[r] # << >> \/ tasks[r] # << >>
            \/ pc[r] \in {"stream", "gather", "gather_last", "finalize", "except", "returned"})
           => /\ actual_batch_id[r] # None
              /\ \E k \in DOMAIN ingest_status :
                    ingest_status[k].batch_id = actual_batch_id[r]
        /\ \A p \in DOMAIN photos :
              photos[p].batch_id = actual_batch_id[r] =>
                  \E k \in DOMAIN ingest_status :
                      ingest_status[k].batch_id = photos[p].batch_id

\* C28 witness: the first chunk of a run is being gathered, no photo row is
\* written yet, and the batch row of the run is there, running.
C28_Witness ==
    /\ pc["r1"] = "gather"
    /\ cur["r1"].count = batch_size
    /\ photos = << >>
    /\ Len(ingest_status) = 1
    /\ ingest_status[1].batch_id = actual_batch_id["r1"]
    /\ ingest_status[1].status = "running"

\* C30: once a run has ended, the batch row it created or resolved is not
\* in status running.
C30_NoBatchLeftRunning ==
    \A r \in Runs :
        (pc[r] \in {"returned", "raised"} /\ actual_batch_id[r] # None) =>
            \A k \in DOMAIN ingest_status :
                ingest_status[k].batch_id = actual_batch_id[r]
                    => ingest_status[k].status \in {"completed", "error"}

\* C30, for the runs that returned or whose error update was written
C30_TerminalUnlessErrorUpdateFails ==
    \A r \in Runs :
        (/\ pc[r] \in {"returned", "raised"} /\ actual_batch_id[r] # None
         /\ ~(pc[r] = "raised" /\ exc[r] = "DBAPIError" /\ faults > 0)) =>
            \A k \in DOMAIN ingest_status :
                ingest_status[k].batch_id = actual_batch_id[r]
                    => ingest_status[k].status \in {"completed", "error"}

\* C33: a config update whose payload names a path that is no directory is
\* answered with status 400 and leaves the three overrides as they were,
\* whatever limit and reprocess the payload carries; any other update is
\* answered with status 200 and leaves the override of every field the
\* payload does not give as it was.
C33_InvalidUpdateChangesNothing ==
    [][(/\ response = NoResponse
        /\ response'.status_code \in {200, 400}
        /\ response'.endpoint = "PUT /ingest/config") =>
          LET payload == response'.request IN
          IF payload.takeout_path \in {"/missing", "/file.txt"}
          THEN /\ response'.status_code = 400
               /\ UNCHANGED << _takeout_override, _ingest_limit_override,
                               _ingest_reprocess_override >>
          ELSE /\ response'.status_code = 200
               /\ payload.takeout_path = None => UNCHANGED _takeout_override
               /\ payload.limit = {} => UNCHANGED _ingest_limit_override
               /\ payload.reprocess = {} => UNCHANGED _ingest_reprocess_override]_vars

\* C33 witness: with a limit and a reprocess override stored, an update that
\* names a missing path and carries another limit and another reprocess
\* value has been refused, and the stored overrides are still there.
C33_Witness ==
    /\ response.status_code = 400
    /\ response.endpoint = "PUT /ingest/config"
    /\ response.request = [limit |-> {2}, reprocess |-> {FALSE}, takeout_path |-> "/missing"]
    /\ _takeout_override = "/other"
    /\ _ingest_limit_override = {1}
    /\ _ingest_reprocess_override = {TRUE}

\* C31: the items a run holds in one chunk have pairwise different source
\* URIs, and in a first run over an empty store in which no storage call
\* fails no item is skipped, none fails, and the run that has returned has
\* written one row per item.
C31_DistinctSourceUris ==
    /\ \A r \in Runs : \A i, j \in DOMAIN batch[r] :
          i # j => batch[r][i].source_uri # batch[r][j].source_uri
    /\ (pc["r2"] = "idle" /\ faults = 0) =>
          /\ skipped["r1"] = 0
          /\ \A i \in DOMAIN tasks["r1"] :
                tasks["r1"][i].st = "done" => tasks["r1"][i].result = << TRUE, FALSE >>
          /\ pc["r1"] = "returned" => Len(photos) = cur["r1"].count

\* C32: for a subscriber that is and stays registered, every step leaves
\* its queue as it is, takes its oldest event off (a read), or appends one
\* event (a broadcast); a broadcast appends the same event to the queue of
\* every registered subscriber and removes none of them, whatever the other
\* subscribers have done.  So the queue is read in the order of the
\* broadcasts, each event once.
C32_EveryEventOnceInOrder ==
    [][/\ \A q \in _event_subscribers \cap _event_subscribers' :
             \/ queues'[q] = queues[q]
             \/ queues[q] # << >> /\ queues'[q] = Tail(queues[q])
             \/ \E event \in {"progress", "completed"} :
                   queues'[q] = Append(queues[q], event)
       /\ (\E q \in DOMAIN queues : Len(queues'[q]) > Len(queues[q])) =>
             /\ _event_subscribers' = _event_subscribers
             /\ \E event \in {"progress", "completed"} :
                   \A q \in _event_subscribers : queues'[q] = Append(queues[q], event)]_vars

\* C32 witness: the first subscriber is still registered and holds two
\* events in the order they were broadcast; the second subscriber came,
\* received the first of them and unsubscribed before the second.
C32_Witness ==
    /\ Len(queues) = 2
    /\ _event_subscribers = {1}
    /\ queues[1] = << "completed", "progress" >>
    /\ queues[2] = << "completed" >>
====
